---- MODULE Spec2Model ----
(***************************************************************************)
(* Model of the cloud-cost-optimizer ML pipeline                           *)
(* (backend/app/ml_pipeline.py, backend/app/ml/recommender.py).            *)
(*                                                                         *)
(* Numbers.  Python floats are kept in fixed point: a float x is the       *)
(* integer 100*x (money in cents, scores in hundredths).  Python ints are  *)
(* kept as they are.  Values that travel in the report returned by         *)
(* run_pipeline are Python objects with their run-time type, see PyInt,    *)
(* PyFloat, PyBool, PyStr, PyNone, PyList and PyDict below.                *)
(***************************************************************************)
EXTENDS Integers, Sequences, FiniteSets, TLC

\* ------------------------------------------------------------------------
\* Bounds of the model
\* ------------------------------------------------------------------------
\* number of rows the cloud_resources table can hold
MaxResources == 2
\* largest daily cost (currency units) of a cost entry
MaxDailyCost == 20

\* the coroutines that call run_pipeline
Runs == {1, 2}
\* the CloudCostOptimizationPipeline objects they call it on
Objects == {1, 2}

\* ------------------------------------------------------------------------
\* Program constants
\* ------------------------------------------------------------------------
\* MLPipelineConfig defaults
DefaultMinDataPoints == 7
DefaultConfidenceThreshold == 60
DefaultMaxRecommendations == 3
\* _validate_recommendation: "$10 minimum", in cents
MinSavingsCents == 1000
\* _analyze_reserved_instance
ReservedMinDays == 30
ReservedMinSavingsCents == 5000
ReservedConfidence == 90

\* ------------------------------------------------------------------------
\* Python objects
\* ------------------------------------------------------------------------
PyInt(n) == [t |-> "int", c |-> "fin", v |-> n]
PyFloat(n) == [t |-> "float", c |-> "fin", v |-> n]
PyNaN == [t |-> "float", c |-> "nan", v |-> 0]
PyInf == [t |-> "float", c |-> "inf", v |-> 0]
PyBool(b) == [t |-> "bool", c |-> "fin", v |-> IF b THEN 1 ELSE 0]
PyStr(s) == [t |-> "str", s |-> s]
PyNone == [t |-> "none"]
PyList(items) == [t |-> "list", items |-> items]
PyDict(items) == [t |-> "dict", items |-> items]

\* d.get(k, default) on a dict kept as a TLA+ function
Get(d, k, default) == IF k \in DOMAIN d THEN d[k] ELSE default

SeqMap(Op(_), s) == [i \in 1..Len(s) |-> Op(s[i])]

RECURSIVE SumSeq(_)
SumSeq(s) == IF s = <<>> THEN 0 ELSE Head(s) + SumSeq(Tail(s))

Min(a, b) == IF a <= b THEN a ELSE b
Max(a, b) == IF a >= b THEN a ELSE b

RECURSIVE ISqrtIn(_, _, _)
\* the largest r in lo..hi with r * r <= x
ISqrtIn(x, lo, hi) ==
    IF lo = hi THEN lo
    ELSE LET mid == (lo + hi + 1) \div 2
         IN IF mid * mid <= x THEN ISqrtIn(x, mid, hi) ELSE ISqrtIn(x, lo, mid - 1)

\* integer square root of a 32-bit natural number
ISqrt(x) == ISqrtIn(x, 0, 46340)

\* ------------------------------------------------------------------------
\* The database: rows of cloud_resources and cost_entries (app/models.py)
\* ------------------------------------------------------------------------
ResourceIdStr == <<"r1", "r2", "r3">>

\* n CostEntry rows of resource i inside the analysis window, the first
\* n - k at cost lo and the last k at cost hi (whole currency units, oldest
\* first), followed by `stale` rows older than the window.
CostRows(i, n, lo, hi, k, stale) ==
    [j \in 1..(n + stale) |->
        [resource_id |-> ResourceIdStr[i],
         age_days |-> IF j <= n THEN n - j ELSE 40,
         cost |-> IF j <= n - k THEN lo ELSE IF j <= n THEN hi ELSE lo]]

\* CloudResource rows.  Odd rows are tagged production databases; even rows
\* are development web servers, untagged or with a numeric tag value (the
\* tags column is free JSON), or a storage volume.
DbRow(i) ==
    [id |-> ResourceIdStr[i], provider |-> "aws", resource_id |-> "arn-db",
     resource_type |-> "database", name |-> "orders-db", region |-> "us-east-1",
     tags |-> [environment |-> PyStr("production")], specifications |-> <<>>]

VmRow(i, tags) ==
    [id |-> ResourceIdStr[i], provider |-> "gcp", resource_id |-> "vm-web",
     resource_type |-> "vm", name |-> "web-dev", region |-> "eu-west-1",
     tags |-> tags, specifications |-> <<>>]

StorageRow(i) ==
    [id |-> ResourceIdStr[i], provider |-> "aws", resource_id |-> "vol-web",
     resource_type |-> "storage", name |-> "web-dev", region |-> "us-east-1",
     tags |-> <<>>, specifications |-> <<>>]

\* The resources row i can hold, each with its cost history.
ResourceChoices(i) ==
    IF i % 2 = 1
    THEN { [row |-> DbRow(i), costs |-> CostRows(i, 5, 10, 10, 0, 5)],
           [row |-> DbRow(i),
            costs |-> CostRows(i, ReservedMinDays, MaxDailyCost, MaxDailyCost, 0, 0)],
           [row |-> DbRow(i),
            costs |-> CostRows(i, ReservedMinDays, 0, MaxDailyCost, 15, 0)] }
    ELSE { [row |-> VmRow(i, <<>>),
            costs |-> CostRows(i, DefaultMinDataPoints, 10, 10, 0, 0)],
           [row |-> VmRow(i, <<>>), costs |-> CostRows(i, ReservedMinDays, 1, 1, 0, 0)],
           [row |-> VmRow(i, <<>>),
            costs |-> CostRows(i, ReservedMinDays, MaxDailyCost, MaxDailyCost, 0, 0)],
           [row |-> VmRow(i, [cost_center |-> PyInt(42)]),
            costs |-> CostRows(i, ReservedMinDays, 10, 10, 0, 0)],
           [row |-> StorageRow(i),
            costs |-> CostRows(i, ReservedMinDays, MaxDailyCost, MaxDailyCost, 0, 0)] }

RECURSIVE Databases(_)
\* every database of n resources
Databases(n) ==
    IF n = 0 THEN { [resources |-> <<>>, cost_entries |-> <<>>] }
    ELSE { [resources |-> d.resources \o <<c.row>>,
            cost_entries |-> d.cost_entries \o c.costs] :
              d \in Databases(n - 1), c \in ResourceChoices(n) }

DatabaseChoices == UNION { Databases(n) : n \in 0..MaxResources }

\* ------------------------------------------------------------------------
\* MLPipelineConfig
\* ------------------------------------------------------------------------
MLPipelineConfig(threshold, maxrecs, risk, perf) ==
    [analysis_window_days |-> 30,
     min_data_points |-> DefaultMinDataPoints,
     confidence_threshold |-> threshold,
     max_recommendations_per_resource |-> maxrecs,
     enable_anomaly_detection |-> TRUE,
     enable_risk_assessment |-> risk,
     enable_performance_prediction |-> perf]

ConfigChoices ==
    { MLPipelineConfig(tm[1], tm[2], risk, perf) :
        tm \in { <<DefaultConfidenceThreshold, DefaultMaxRecommendations>>,
                 <<95, DefaultMaxRecommendations>>,
                 <<DefaultConfidenceThreshold, 0>> },
        risk \in BOOLEAN, perf \in BOOLEAN }

\* ------------------------------------------------------------------------
\* PipelineStage, PipelineResult
\* ------------------------------------------------------------------------
PipelineStage ==
    <<"data_ingestion", "feature_engineering", "pattern_analysis", "risk_assessment",
      "recommendation_generation", "performance_estimation", "validation">>

\* PipelineResult(stage, success, data, timestamp, duration, error); the
\* timestamp is left out
PipelineResult(stage, success, data, duration, error) ==
    [stage |-> stage, success |-> success, data |-> data,
     duration |-> duration, error |-> error]

\* the except branch of every stage method
FailedResult(stage, duration) ==
    PipelineResult(stage, FALSE, <<>>, duration, PyStr("exception"))

\* ------------------------------------------------------------------------
\* Stage 1: data ingestion
\* ------------------------------------------------------------------------
\* select(CloudResource) [.where(id.in_(resource_ids))]
QueryResources(database, resource_ids) ==
    IF resource_ids # <<>>
    THEN SelectSeq(database.resources,
                   LAMBDA row : \E k \in 1..Len(resource_ids) : resource_ids[k] = row.id)
    ELSE database.resources

\* select(CostEntry).where(date >= start_date, date <= end_date)
QueryCostEntries(database, cfg) ==
    SelectSeq(database.cost_entries,
              LAMBDA row : row.age_days >= 0 /\ row.age_days <= cfg.analysis_window_days)

\* the dictionaries built from the rows, and the stage's data
IngestionData(resources, cost_entries, cfg) ==
    [resources |-> resources,
     cost_entries |-> SeqMap(LAMBDA row : [resource_id |-> row.resource_id,
                                           date |-> 0 - row.age_days,
                                           cost |-> row.cost], cost_entries),
     summary |-> [total_resources |-> PyInt(Len(resources)),
                  total_cost_entries |-> PyInt(Len(cost_entries)),
                  avg_cost_per_resource |->
                      IF resources # <<>>
                      THEN PyFloat((100 * Len(cost_entries)) \div Len(resources))
                      ELSE PyInt(0)]]

\* ------------------------------------------------------------------------
\* Stage 2: feature engineering
\* ------------------------------------------------------------------------
\* cost_by_resource.get(resource_id, [])
CostsOf(cost_entries, id) == SelectSeq(cost_entries, LAMBDA c : c.resource_id = id)

\* tag.lower() raises AttributeError on a tag value that is not a string
\* (tags of the model hold at most one entry, so any()'s short circuit
\* cannot hide it)
TagLowerRaises(tags) == \E k \in DOMAIN tags : tags[k].t # "str"

IsProductionTag(tags) ==
    \E k \in DOMAIN tags : tags[k].t = "str" /\ tags[k].s \in {"prod", "production"}

\* _extract_resource_features: floats in hundredths, computed from the whole
\* unit costs x_1..x_n with S = sum x, Q = sum x^2
ExtractResourceFeatures(resource, costs, cfg) ==
    IF TagLowerRaises(resource.tags)
    THEN [resource_id |-> resource.id, resource |-> resource,
          error |-> PyStr("AttributeError")]
    ELSE
    LET n == Len(costs)
        x == SeqMap(LAMBDA c : c.cost, costs)
        S == SumSeq(x)
        Q == SumSeq(SeqMap(LAMBDA v : v * v, x))
        mn == CHOOSE v \in {x[j] : j \in 1..n} : \A j \in 1..n : v <= x[j]
        mx == CHOOSE v \in {x[j] : j \in 1..n} : \A j \in 1..n : v >= x[j]
        Sj == SumSeq([j \in 1..n |-> j - 1])
        Sjj == SumSeq([j \in 1..n |-> (j - 1) * (j - 1)])
        Sjx == SumSeq([j \in 1..n |-> (j - 1) * x[j]])
        avg == (100 * S) \div n
        std == IF n > 1 THEN ISqrt((10000 * (n * Q - S * S)) \div (n * n)) ELSE 0
        trend == IF n > 1 THEN (100 * (n * Sjx - Sj * S)) \div (n * Sjj - Sj * Sj) ELSE 0
        vol == IF avg > 0 THEN ISqrt((10000 * (n * Q - S * S)) \div (S * S)) ELSE 0
    IN [resource_id |-> resource.id, resource |-> resource,
        combined_features |->
          [avg_daily_cost |-> avg, total_cost |-> 100 * S, cost_std |-> std,
           cost_min |-> 100 * mn, cost_max |-> 100 * mx, cost_trend |-> trend,
           cost_volatility |-> vol,
           data_points |-> n,
           usage_consistency |-> IF vol < 100 THEN 100 - vol ELSE 0,
           peak_cost_ratio |-> IF avg > 0 THEN (10000 * mx) \div avg ELSE 100,
           cost_range_ratio |-> IF avg > 0 THEN (10000 * (mx - mn)) \div avg ELSE 0,
           has_tags |-> DOMAIN resource.tags # {},
           tag_count |-> Cardinality(DOMAIN resource.tags),
           is_production |-> IsProductionTag(resource.tags),
           analysis_window_days |-> cfg.analysis_window_days]]

\* a feature stage that never skips a resource
HasEnoughDataAlways(resource, cost_entries, cfg) == TRUE

\* the resources that pass "len(resource_costs) < min_data_points: continue"
HasEnoughData(resource, cost_entries, cfg) ==
    ~(Len(CostsOf(cost_entries, resource.id)) < cfg.min_data_points)

\* the try body of _run_feature_engineering
FeatureData(ingestion_data, cfg) ==
    LET resources == ingestion_data.resources
        kept == SelectSeq(resources,
                    LAMBDA r : HasEnoughData(r, ingestion_data.cost_entries, cfg))
        feature_data == SeqMap(LAMBDA r : ExtractResourceFeatures(
                                   r, CostsOf(ingestion_data.cost_entries, r.id), cfg), kept)
    IN [features |-> feature_data,
        feature_summary |->
          [total_resources_processed |-> PyInt(Len(feature_data)),
           features_extracted |->
               PyInt(IF feature_data # <<>> THEN Cardinality(DOMAIN feature_data[1]) ELSE 0),
           \* np.mean of an empty list is nan
           avg_data_points_per_resource |->
               IF resources = <<>> THEN PyNaN
               ELSE PyFloat((100 * SumSeq(SeqMap(
                        LAMBDA r : Len(CostsOf(ingestion_data.cost_entries, r.id)),
                        resources))) \div Len(resources))]]

\* ------------------------------------------------------------------------
\* Stage 3: pattern analysis
\* ------------------------------------------------------------------------
\* _analyze_usage_patterns
AnalyzeUsagePatterns(features) ==
    [cost_stability |-> 100 - Get(features, "cost_volatility", 0),
     usage_consistency |-> Get(features, "usage_consistency", 0),
     peak_usage_ratio |-> Get(features, "peak_cost_ratio", 100),
     trend_direction |->
        IF Get(features, "cost_trend", 0) > 0 THEN "increasing" ELSE "decreasing",
     trend_magnitude |->
        IF Get(features, "cost_trend", 0) >= 0 THEN Get(features, "cost_trend", 0)
        ELSE 0 - Get(features, "cost_trend", 0),
     is_over_provisioned |->
        2 * Get(features, "avg_daily_cost", 0) > 3 * Get(features, "cost_min", 0),
     is_under_utilized |-> Get(features, "usage_consistency", 0) < 30,
     volatility_level |->
        IF Get(features, "cost_volatility", 0) > 50 THEN "high" ELSE "low"]

Inefficiency(type, severity, pct, confidence) ==
    [type |-> type, severity |-> severity, potential_savings_pct |-> pct,
     confidence |-> confidence]

\* _detect_inefficiencies
DetectInefficiencies(resource, features, patterns) ==
    (IF Get(patterns, "is_over_provisioned", FALSE)
     THEN <<Inefficiency("over_provisioning", "medium", 30, 80)>> ELSE <<>>)
    \o (IF Get(patterns, "is_under_utilized", FALSE)
        THEN <<Inefficiency("under_utilization", "high", 60, 90)>> ELSE <<>>)
    \o (IF Get(patterns, "volatility_level", "low") = "high"
        THEN <<Inefficiency("usage_volatility", "medium", 20, 70)>> ELSE <<>>)
    \o (IF Get(features, "is_production", FALSE)
           /\ Get(patterns, "usage_consistency", 0) < 40
        THEN <<Inefficiency("production_inefficiency", "high", 40, 85)>> ELSE <<>>)

\* _calculate_analysis_confidence
CalculateAnalysisConfidence(features) ==
    LET c1 == 50 + (IF Get(features, "data_points", 0) > 30 THEN 20
                    ELSE IF Get(features, "data_points", 0) > 14 THEN 10 ELSE 0)
        c2 == c1 + (IF Get(features, "is_production", FALSE) THEN 10 ELSE 0)
        c3 == c2 - (IF Get(features, "cost_volatility", 0) > 70 THEN 10 ELSE 0)
    IN Min(Max(c3, 10), 95)

\* feature_set["combined_features"] raises KeyError on the error dictionary
\* that _extract_resource_features returns when it failed
PatternAnalysisRaises(feature_data) ==
    \E i \in 1..Len(feature_data.features) :
        "combined_features" \notin DOMAIN feature_data.features[i]

\* the try body of _run_pattern_analysis (the anomalies, which nothing
\* downstream reads, are left out)
PatternData(feature_data, cfg) ==
    LET pattern_analysis ==
          SeqMap(LAMBDA fs :
                   LET usage_patterns == AnalyzeUsagePatterns(fs.combined_features)
                   IN [resource_id |-> fs.resource_id,
                       resource |-> fs.resource,
                       usage_patterns |-> usage_patterns,
                       inefficiencies |-> DetectInefficiencies(
                           fs.resource, fs.combined_features, usage_patterns),
                       analysis_confidence |->
                           CalculateAnalysisConfidence(fs.combined_features)],
                 feature_data.features)
    IN [pattern_analysis |-> pattern_analysis,
        summary |-> [resources_analyzed |-> PyInt(Len(pattern_analysis)),
                     inefficiencies_detected |->
                        PyInt(SumSeq(SeqMap(LAMBDA pa : Len(pa.inefficiencies),
                                            pattern_analysis)))]]

\* ------------------------------------------------------------------------
\* OptimizationRecommender (app/ml/recommender.py).  A recommendation is a
\* Python dict: a function from its keys to Python objects.
\* ------------------------------------------------------------------------
\* the value of a Python number in hundredths
NumVal(x) == IF x.t = "float" THEN x.v ELSE 100 * x.v

\* rec.get(key, 0) as a number in hundredths
NumGet(rec, key) == IF key \in DOMAIN rec THEN NumVal(rec[key]) ELSE 0

SmallerInstance ==
    [x \in {"t3.medium", "t3.large", "m5.large", "m5.xlarge", "c5.large", "r5.large"} |->
        CASE x = "t3.medium" -> "t3.small" [] x = "t3.large" -> "t3.medium"
          [] x = "m5.large" -> "m5.medium" [] x = "m5.xlarge" -> "m5.large"
          [] x = "c5.large" -> "c5.medium" [] x = "r5.large" -> "r5.medium"]

LargerInstance ==
    [x \in {"t3.small", "t3.medium", "m5.medium", "m5.large", "c5.medium", "r5.medium"} |->
        CASE x = "t3.small" -> "t3.medium" [] x = "t3.medium" -> "t3.large"
          [] x = "m5.medium" -> "m5.large" [] x = "m5.large" -> "m5.xlarge"
          [] x = "c5.medium" -> "c5.large" [] x = "r5.medium" -> "r5.large"]

InstanceCosts ==
    [x \in {"t3.small", "t3.medium", "t3.large", "m5.medium", "m5.large", "m5.xlarge",
            "c5.medium", "c5.large", "r5.medium", "r5.large"} |->
        CASE x = "t3.small" -> 10 [] x = "t3.medium" -> 20 [] x = "t3.large" -> 40
          [] x = "m5.medium" -> 30 [] x = "m5.large" -> 60 [] x = "m5.xlarge" -> 120
          [] x = "c5.medium" -> 40 [] x = "c5.large" -> 80
          [] x = "r5.medium" -> 50 [] x = "r5.large" -> 100]

\* _get_smaller_instance falling back to the smallest type for a type it
\* does not know
GetSmallerInstanceOrSmallest(current) == Get(SmallerInstance, current, "t3.small")

\* _get_smaller_instance, _get_larger_instance
GetSmallerInstance(current) == Get(SmallerInstance, current, current)
GetLargerInstance(current) == Get(LargerInstance, current, current)

\* _calculate_instance_savings: max(0, current_cost - recommended_cost), an int
CalculateInstanceSavings(current, recommended) ==
    Max(0, Get(InstanceCosts, current, 50) - Get(InstanceCosts, recommended, 50))

\* _analyze_rightsizing downsizing when either the average or the peak is low
AnalyzeRightsizingEitherLow(resource, usage_patterns) ==
    LET current_instance == Get(resource, "instance_type", "")
        avg_cpu == Get(usage_patterns, "avg_cpu_utilization", 0)
        peak_cpu == Get(usage_patterns, "peak_cpu_utilization", 0)
        down == avg_cpu < 20 \/ peak_cpu < 40
        up == ~down /\ avg_cpu > 80 /\ peak_cpu > 90
        recommended_instance ==
            IF down THEN GetSmallerInstance(current_instance)
            ELSE IF up THEN GetLargerInstance(current_instance)
            ELSE current_instance
        savings_potential ==
            IF down THEN CalculateInstanceSavings(current_instance, recommended_instance)
            ELSE 0
    IN IF ~down /\ ~up /\ 40 <= avg_cpu /\ avg_cpu <= 70 THEN <<>>
       ELSE IF recommended_instance # current_instance /\ savings_potential > 10
       THEN << [id |-> PyStr(<<"rightsizing", resource.id>>),
                resource_id |-> PyStr(resource.id),
                type |-> PyStr("rightsizing"),
                title |-> PyStr("Rightsize Instance"),
                description |-> PyStr(".1f"),
                current_instance |-> PyStr(current_instance),
                recommended_instance |-> PyStr(recommended_instance),
                potential_savings |-> PyInt(savings_potential),
                confidence_score |-> PyFloat(80),
                implementation_complexity |-> PyStr("medium"),
                estimated_effort_hours |-> PyInt(2),
                requires_downtime |-> PyBool(TRUE),
                rollback_complexity |-> PyStr("low")] >>
       ELSE <<>>

\* _analyze_rightsizing: <<>> for None, else the one recommendation
AnalyzeRightsizing(resource, usage_patterns) ==
    LET current_instance == Get(resource, "instance_type", "")
        avg_cpu == Get(usage_patterns, "avg_cpu_utilization", 0)
        peak_cpu == Get(usage_patterns, "peak_cpu_utilization", 0)
        down == avg_cpu < 20 /\ peak_cpu < 40
        up == ~down /\ avg_cpu > 80 /\ peak_cpu > 90
        recommended_instance ==
            IF down THEN GetSmallerInstance(current_instance)
            ELSE IF up THEN GetLargerInstance(current_instance)
            ELSE current_instance
        savings_potential ==
            IF down THEN CalculateInstanceSavings(current_instance, recommended_instance)
            ELSE 0
    IN IF ~down /\ ~up /\ 40 <= avg_cpu /\ avg_cpu <= 70 THEN <<>>
       ELSE IF recommended_instance # current_instance /\ savings_potential > 10
       THEN << [id |-> PyStr(<<"rightsizing", resource.id>>),
                resource_id |-> PyStr(resource.id),
                type |-> PyStr("rightsizing"),
                title |-> PyStr("Rightsize Instance"),
                description |-> PyStr(".1f"),
                current_instance |-> PyStr(current_instance),
                recommended_instance |-> PyStr(recommended_instance),
                potential_savings |-> PyInt(savings_potential),
                confidence_score |-> PyFloat(80),
                implementation_complexity |-> PyStr("medium"),
                estimated_effort_hours |-> PyInt(2),
                requires_downtime |-> PyBool(TRUE),
                rollback_complexity |-> PyStr("low")] >>
       ELSE <<>>

\* _analyze_reserved_instance (costs in whole units, savings in cents)
AnalyzeReservedInstance(resource, cost_data) ==
    LET resource_costs == SelectSeq(cost_data, LAMBDA c : c.resource_id = resource.id)
        n == Len(resource_costs)
        total_cost == SumSeq(SeqMap(LAMBDA c : c.cost, resource_costs))
        monthly_savings == (100 * total_cost * 30 * 4) \div (10 * n)
    IN IF n < ReservedMinDays THEN <<>>
       ELSE IF monthly_savings > ReservedMinSavingsCents
       THEN << [id |-> PyStr(<<"reserved", resource.id>>),
                resource_id |-> PyStr(resource.id),
                type |-> PyStr("reserved_instance"),
                title |-> PyStr("Purchase Reserved Instance"),
                description |-> PyStr("consistent usage"),
                current_cost_monthly |-> PyFloat((100 * total_cost * 30) \div n),
                reserved_cost_monthly |-> PyFloat((100 * total_cost * 30 * 6) \div (10 * n)),
                potential_savings |-> PyFloat(monthly_savings),
                confidence_score |-> PyFloat(ReservedConfidence),
                implementation_complexity |-> PyStr("low"),
                estimated_effort_hours |-> PyInt(1),
                requires_downtime |-> PyBool(FALSE),
                rollback_complexity |-> PyStr("high")] >>
       ELSE <<>>

\* _analyze_spot_instance (monthly_cost in whole units)
AnalyzeSpotInstance(resource, usage_patterns) ==
    LET avg_cpu == Get(usage_patterns, "avg_cpu_utilization", 0)
        monthly_cost == Get(resource, "monthly_cost", 0)
        monthly_savings == 70 * monthly_cost
    IN IF avg_cpu > 70 THEN <<>>
       ELSE IF monthly_savings > 2000
       THEN << [id |-> PyStr(<<"spot", resource.id>>),
                resource_id |-> PyStr(resource.id),
                type |-> PyStr("spot_instance"),
                title |-> PyStr("Use Spot Instances"),
                description |-> PyStr("can be converted to a spot instance"),
                current_cost_monthly |-> PyInt(monthly_cost),
                spot_cost_monthly |-> PyFloat(30 * monthly_cost),
                potential_savings |-> PyFloat(monthly_savings),
                confidence_score |-> PyFloat(60),
                implementation_complexity |-> PyStr("medium"),
                estimated_effort_hours |-> PyInt(4),
                requires_downtime |-> PyBool(TRUE),
                rollback_complexity |-> PyStr("medium"),
                risk_factors |-> PyList(<<PyStr("Spot instance interruptions"),
                                          PyStr("Need fault-tolerant architecture")>>)] >>
       ELSE <<>>

\* _analyze_storage_optimization (GB in whole units, cost_per_gb 0.10)
AnalyzeStorageOptimization(resource, usage_patterns) ==
    LET storage_used == Get(usage_patterns, "storage_used_gb", 0)
        storage_allocated == Get(usage_patterns, "storage_allocated_gb", 0)
        monthly_savings == (storage_allocated - storage_used) * Get(resource, "cost_per_gb", 10)
    IN IF Get(resource, "resource_type", "") \notin {"storage", "block_storage"} THEN <<>>
       ELSE IF storage_allocated = 0 THEN <<>>
       ELSE IF 10 * storage_used < 3 * storage_allocated /\ monthly_savings > 1000
       THEN << [id |-> PyStr(<<"storage", resource.id>>),
                resource_id |-> PyStr(resource.id),
                type |-> PyStr("storage_optimization"),
                title |-> PyStr("Optimize Storage Allocation"),
                description |-> PyStr("storage resource is under-utilized"),
                current_storage_gb |-> PyInt(storage_allocated),
                recommended_storage_gb |-> PyFloat(120 * storage_used),
                potential_savings |-> PyFloat(monthly_savings),
                confidence_score |-> PyFloat(85),
                implementation_complexity |-> PyStr("low"),
                estimated_effort_hours |-> PyInt(1),
                requires_downtime |-> PyBool(FALSE),
                rollback_complexity |-> PyStr("low")] >>
       ELSE <<>>

\* _analyze_unused_resource giving its confidence on the percent scale
AnalyzeUnusedResourcePercent(resource, usage_patterns) ==
    LET avg_cpu == Get(usage_patterns, "avg_cpu_utilization", 0)
        avg_network == Get(usage_patterns, "avg_network_utilization", 0)
        last_activity == Get(usage_patterns, "last_activity_days", 0)
        monthly_cost == Get(resource, "monthly_cost", 0)
    IN IF avg_cpu < 5 /\ avg_network < 10 /\ last_activity > 7
       THEN << [id |-> PyStr(<<"unused", resource.id>>),
                resource_id |-> PyStr(resource.id),
                type |-> PyStr("unused_resource"),
                title |-> PyStr("Terminate Unused Resource"),
                description |-> PyStr("very low activity"),
                potential_savings |-> PyInt(monthly_cost),
                confidence_score |-> PyInt(70),
                implementation_complexity |-> PyStr("low"),
                estimated_effort_hours |-> PyFloat(50),
                requires_downtime |-> PyBool(TRUE),
                rollback_complexity |-> PyStr("medium"),
                risk_factors |-> PyList(<<PyStr("Data loss if resource contains important data")>>)] >>
       ELSE <<>>

\* _analyze_unused_resource judging by utilization and last activity only
AnalyzeUnusedResourceIdleCpu(resource, usage_patterns) ==
    LET avg_cpu == Get(usage_patterns, "avg_cpu_utilization", 0)
        avg_network == Get(usage_patterns, "avg_network_utilization", 0)
        last_activity == Get(usage_patterns, "last_activity_days", 0)
        monthly_cost == Get(resource, "monthly_cost", 0)
    IN IF avg_cpu < 5 /\ last_activity > 7
       THEN << [id |-> PyStr(<<"unused", resource.id>>),
                resource_id |-> PyStr(resource.id),
                type |-> PyStr("unused_resource"),
                title |-> PyStr("Terminate Unused Resource"),
                description |-> PyStr("very low activity"),
                potential_savings |-> PyInt(monthly_cost),
                confidence_score |-> PyFloat(70),
                implementation_complexity |-> PyStr("low"),
                estimated_effort_hours |-> PyFloat(50),
                requires_downtime |-> PyBool(TRUE),
                rollback_complexity |-> PyStr("medium"),
                risk_factors |-> PyList(<<PyStr("Data loss if resource contains important data")>>)] >>
       ELSE <<>>

\* _analyze_unused_resource
AnalyzeUnusedResource(resource, usage_patterns) ==
    LET avg_cpu == Get(usage_patterns, "avg_cpu_utilization", 0)
        avg_network == Get(usage_patterns, "avg_network_utilization", 0)
        last_activity == Get(usage_patterns, "last_activity_days", 0)
        monthly_cost == Get(resource, "monthly_cost", 0)
    IN IF avg_cpu < 5 /\ avg_network < 10 /\ last_activity > 7
       THEN << [id |-> PyStr(<<"unused", resource.id>>),
                resource_id |-> PyStr(resource.id),
                type |-> PyStr("unused_resource"),
                title |-> PyStr("Terminate Unused Resource"),
                description |-> PyStr("very low activity"),
                potential_savings |-> PyInt(monthly_cost),
                confidence_score |-> PyFloat(70),
                implementation_complexity |-> PyStr("low"),
                estimated_effort_hours |-> PyFloat(50),
                requires_downtime |-> PyBool(TRUE),
                rollback_complexity |-> PyStr("medium"),
                risk_factors |-> PyList(<<PyStr("Data loss if resource contains important data")>>)] >>
       ELSE <<>>

\* _analyze_resource
AnalyzeResource(resource, usage_patterns, cost_data) ==
    LET resource_usage == Get(usage_patterns, resource.id, <<>>)
    IN AnalyzeRightsizing(resource, resource_usage)
       \o AnalyzeReservedInstance(resource, cost_data)
       \o AnalyzeSpotInstance(resource, resource_usage)
       \o AnalyzeStorageOptimization(resource, resource_usage)
       \o AnalyzeUnusedResource(resource, resource_usage)

\* _calculate_priority_level; the score is kept in 1/100000
CalculatePriorityLevel(rec) ==
    LET complexity == IF "implementation_complexity" \in DOMAIN rec
                      THEN rec["implementation_complexity"].s ELSE "medium"
        base == NumGet(rec, "potential_savings") * NumGet(rec, "confidence_score")
        priority_score == IF complexity = "low" THEN base * 12
                          ELSE IF complexity = "high" THEN base * 8 ELSE base * 10
    IN IF priority_score > 50000000 THEN "critical"
       ELSE IF priority_score > 20000000 THEN "high"
       ELSE IF priority_score > 5000000 THEN "medium"
       ELSE "low"

\* lexicographic order on the pairs used as sort keys
KeyLess(a, b) == a[1] < b[1] \/ (a[1] = b[1] /\ a[2] < b[2])

RECURSIVE InsertByKey(_, _)
\* insert the pair e = <<key, item>> after every pair whose key is not larger
InsertByKey(s, e) ==
    IF s = <<>> THEN <<e>>
    ELSE IF KeyLess(e[1], Head(s)[1]) THEN <<e>> \o s
    ELSE <<Head(s)>> \o InsertByKey(Tail(s), e)

RECURSIVE SortPairs(_)
SortPairs(s) ==
    IF s = <<>> THEN <<>>
    ELSE InsertByKey(SortPairs(SubSeq(s, 1, Len(s) - 1)), s[Len(s)])

\* list.sort(key=...): ascending in keys[i], stable
StableSort(s, keys) ==
    SeqMap(LAMBDA e : e[2], SortPairs([i \in 1..Len(s) |-> <<keys[i], s[i]>>]))

RECURSIVE ConcatSeqs(_)
ConcatSeqs(ss) == IF ss = <<>> THEN <<>> ELSE Head(ss) \o ConcatSeqs(Tail(ss))

\* generate_recommendations
GenerateRecommendations(resources, usage_patterns, cost_data) ==
    LET found == ConcatSeqs(SeqMap(
                    LAMBDA r : AnalyzeResource(r, usage_patterns, cost_data), resources))
        \* sort(key=potential_savings, reverse=True)
        sorted == StableSort(found, SeqMap(
                    LAMBDA rec : <<0 - NumGet(rec, "potential_savings"), 0>>, found))
    IN [i \in 1..Len(sorted) |->
          [k \in DOMAIN sorted[i] \cup {"priority_rank", "priority_level"} |->
              IF k = "priority_rank" THEN PyInt(i)
              ELSE IF k = "priority_level" THEN PyStr(CalculatePriorityLevel(sorted[i]))
              ELSE sorted[i][k]]]

\* ------------------------------------------------------------------------
\* RiskAssessor (app/ml/risk_assessor.py); component scores in hundredths
\* ------------------------------------------------------------------------
\* "kw in s" for the lower-cased strings of the model: the keywords, among
\* those the assessor and the predictor look for, that occur in s
KeywordsIn(s) ==
    CASE s = "database" -> {"database"}
      [] s = "storage" -> {"storage"}
      [] s = "orders-db" -> {}
      [] s = "web-dev" -> {"web"}
      [] s = "prod-api" -> {"prod", "api"}
      [] s = "rightsizing" -> {"rightsizing"}
      [] s = "reserved_instance" -> {"reserved", "instance"}
      [] s = "spot_instance" -> {"spot", "instance"}
      [] s = "storage_optimization" -> {"storage"}
      [] OTHER -> {}

StrTagValues(tags) == {tags[k].s : k \in {j \in DOMAIN tags : tags[j].t = "str"}}

\* _assess_resource_criticality
AssessResourceCriticality(resource) ==
    (IF KeywordsIn(resource.resource_type)
          \cap {"database", "load_balancer", "api_gateway", "cache", "message_queue",
                "storage_gateway"} # {} THEN 40 ELSE 0)
    + (IF KeywordsIn(resource.name) \cap {"prod", "production", "critical", "main", "primary"}
          # {} THEN 30 ELSE 0)
    + (IF \E k \in DOMAIN resource.tags :
            /\ k \in {"environment", "tier", "importance"}
            /\ resource.tags[k].t = "str"
            /\ resource.tags[k].s \in {"production", "prod", "critical", "high"}
       THEN 30 ELSE 0)

\* _assess_business_impact looking at the name only, not at the tags
AssessBusinessImpactNameOnly(resource) ==
    IF KeywordsIn(resource.name) \cap {"web", "api", "app", "service", "customer"} # {}
    THEN 20 ELSE 0

\* _assess_business_impact (no tag value of the model contains one of the
\* compliance keywords, so that loop adds nothing)
AssessBusinessImpact(resource) ==
    LET tags == resource.tags
        perTag(k) ==
            (IF k \in {"business-unit", "department", "owner"} /\ tags[k].t = "str"
                /\ tags[k].s \in {"finance", "sales", "customer-service", "operations"}
             THEN 30 ELSE 0)
            + (IF tags[k].t = "str"
                  /\ tags[k].s \in {"production", "critical", "revenue-generating",
                                    "customer-facing", "compliance-required"}
               THEN 40 ELSE 0)
        RECURSIVE sumTags(_)
        sumTags(ks) == IF ks = {} THEN 0
                       ELSE LET k == CHOOSE j \in ks : TRUE
                            IN perTag(k) + sumTags(ks \ {k})
    IN Min(100, sumTags(DOMAIN tags)
                + (IF KeywordsIn(resource.name) \cap {"web", "api", "app", "service", "customer"}
                      # {} THEN 20 ELSE 0))

\* _assess_rollback_complexity
AssessRollbackComplexity(optimization) ==
    LET kws == KeywordsIn(Get(optimization, "type", ""))
        base == IF "rightsizing" \in kws THEN 20
                ELSE IF "instance" \in kws \/ "resize" \in kws THEN 40
                ELSE IF "reserved" \in kws THEN 70
                ELSE IF "spot" \in kws THEN 60
                ELSE IF "storage" \in kws THEN 50
                ELSE 40
    IN Min(100, base + (IF Get(optimization, "requires_data_migration", FALSE)
                        THEN 30 ELSE 0))

\* _assess_data_sensitivity
AssessDataSensitivity(resource) ==
    Min(100,
        (IF StrTagValues(resource.tags)
              \cap {"pii", "phi", "sensitive", "confidential", "encrypted"} # {}
         THEN 60 ELSE 0)
        + (IF "database" \in KeywordsIn(resource.resource_type) THEN 40 ELSE 0)
        + (IF "storage" \in KeywordsIn(resource.resource_type) THEN 30 ELSE 0))

\* _assess_uptime_requirements (no resource of the model carries an sla tag)
AssessUptimeRequirements(resource) ==
    Min(100,
        (IF KeywordsIn(resource.name) \cap {"multi-az", "ha", "high-availability"} # {}
         THEN 40 ELSE 0)
        + (IF KeywordsIn(resource.name) \cap {"prod", "production"} # {} THEN 30 ELSE 0))

\* _calculate_risk_level with medium starting at 0.5
CalculateRiskLevelMediumAtHalf(risk_score) ==
    IF risk_score >= 8000 THEN "critical"
    ELSE IF risk_score >= 6000 THEN "high"
    ELSE IF risk_score >= 5000 THEN "medium"
    ELSE "low"

\* _calculate_risk_level, the score in 1/10000
CalculateRiskLevel(risk_score) ==
    IF risk_score >= 8000 THEN "critical"
    ELSE IF risk_score >= 6000 THEN "high"
    ELSE IF risk_score >= 4000 THEN "medium"
    ELSE "low"

\* a name column that is NULL (models.py: name is nullable) reaches the
\* assessor as None; no resource name of the model is this string
NullName == "<None>"

\* resource.get('name', '').lower() raises AttributeError on None
AssessRiskRaises(resource) == Get(resource, "name", "") = NullName

\* assess_risk: the try body, or the dictionary of the except branch
AssessRisk(resource, optimization) ==
    IF AssessRiskRaises(resource)
    THEN [overall_risk_score |-> 5000, risk_level |-> "medium",
          error |-> "AttributeError"]
    ELSE
    LET risk_score == AssessResourceCriticality(resource) * 30
                      + AssessBusinessImpact(resource) * 30
                      + AssessRollbackComplexity(optimization) * 20
                      + AssessDataSensitivity(resource) * 10
                      + AssessUptimeRequirements(resource) * 10
        risk_level == CalculateRiskLevel(risk_score)
    IN [overall_risk_score |-> risk_score,
        risk_level |-> risk_level,
        requires_approval |-> risk_level \in {"high", "critical"},
        auto_approval_eligible |-> risk_level = "low"]

\* ------------------------------------------------------------------------
\* Stage 4: risk assessment
\* ------------------------------------------------------------------------
\* the try body of _run_risk_assessment
RiskData(pattern_data) ==
    LET risk_assessments ==
          ConcatSeqs(SeqMap(
            LAMBDA analysis :
              SeqMap(LAMBDA inefficiency :
                       [resource_id |-> analysis.resource_id,
                        inefficiency |-> inefficiency,
                        risk_assessment |-> AssessRisk(analysis.resource,
                            [type |-> inefficiency.type,
                             implementation_complexity |-> "medium",
                             requires_downtime |-> inefficiency.type
                                 \in {"over_provisioning", "under_utilization"}])],
                     analysis.inefficiencies),
            pattern_data.pattern_analysis))
    IN [risk_assessments |-> risk_assessments,
        summary |->
          [total_assessments |-> PyInt(Len(risk_assessments)),
           high_risk_count |-> PyInt(Len(SelectSeq(risk_assessments,
                LAMBDA r : r.risk_assessment.risk_level = "high"))),
           critical_risk_count |-> PyInt(Len(SelectSeq(risk_assessments,
                LAMBDA r : r.risk_assessment.risk_level = "critical")))]]

\* ------------------------------------------------------------------------
\* Stage 5: recommendation generation
\* ------------------------------------------------------------------------
\* the recommender's output for one analysed resource
RecommendationsFor(analysis, ingestion_data) ==
    GenerateRecommendations(
        <<analysis.resource>>,
        (analysis.resource.id :> analysis.usage_patterns),
        SelectSeq(Get(ingestion_data, "cost_entries", <<>>),
                  LAMBDA c : c.resource_id = analysis.resource.id))

InefficiencyDict(i) ==
    PyDict([type |-> PyStr(i.type), severity |-> PyStr(i.severity),
            potential_savings_pct |-> PyInt(i.potential_savings_pct),
            confidence |-> PyFloat(i.confidence)])

\* "if rec.get('confidence_score', 0) >= confidence_threshold", with the
\* metadata added to the recommendations that pass
FilterByConfidence(recommendations, analysis, cfg) ==
    SeqMap(LAMBDA rec :
             [k \in DOMAIN rec \cup {"resource_name", "resource_type", "provider",
                                     "detected_inefficiencies"} |->
                 CASE k = "resource_name" -> PyStr(Get(analysis.resource, "name", ""))
                   [] k = "resource_type" -> PyStr(Get(analysis.resource, "resource_type", ""))
                   [] k = "provider" -> PyStr(Get(analysis.resource, "provider", ""))
                   [] k = "detected_inefficiencies" ->
                        PyList(SeqMap(InefficiencyDict, analysis.inefficiencies))
                   [] OTHER -> rec[k]],
           SelectSeq(recommendations,
                     LAMBDA rec : NumGet(rec, "confidence_score") >= cfg.confidence_threshold))

\* a generation stage that keeps every recommendation that passed the filter
CapPerResourceNone(filtered_recommendations, cfg) == filtered_recommendations

\* filtered_recommendations[:max_recommendations_per_resource], for the caps
\* of the model, which are not negative
CapPerResource(filtered_recommendations, cfg) ==
    SubSeq(filtered_recommendations, 1,
           Min(cfg.max_recommendations_per_resource, Len(filtered_recommendations)))

\* a generation stage that, when risk assessment is enabled, drops the
\* resources whose reserved instance purchase is not assessed as low risk
AllRecommendationsRiskGated(pattern_data, ingestion_data, cfg) ==
    ConcatSeqs(SeqMap(
        LAMBDA analysis :
           CapPerResource(FilterByConfidence(RecommendationsFor(analysis, ingestion_data),
                                             analysis, cfg), cfg),
        SelectSeq(pattern_data.pattern_analysis,
                  LAMBDA analysis :
                     cfg.enable_risk_assessment =>
                        AssessRisk(analysis.resource,
                                   [type |-> "reserved_instance"]).risk_level = "low")))

\* "for analysis in pattern_analysis: ... all_recommendations.extend(...)"
AllRecommendations(pattern_data, ingestion_data, cfg) ==
    ConcatSeqs(SeqMap(
        LAMBDA analysis :
           CapPerResource(FilterByConfidence(RecommendationsFor(analysis, ingestion_data),
                                             analysis, cfg), cfg),
        pattern_data.pattern_analysis))

\* sum(r.get("potential_savings", 0) for r in recs): the int 0 when empty
SumSavings(recs) ==
    IF recs = <<>> THEN PyInt(0)
    ELSE IF \A i \in 1..Len(recs) :
               "potential_savings" \notin DOMAIN recs[i] \/ recs[i]["potential_savings"].t = "int"
    THEN PyInt(SumSeq(SeqMap(LAMBDA r : NumGet(r, "potential_savings"), recs)) \div 100)
    ELSE PyFloat(SumSeq(SeqMap(LAMBDA r : NumGet(r, "potential_savings"), recs)))

\* _group_recommendations_by_type, _group_recommendations_by_priority
GroupBy(recs, key) ==
    LET vals == {Get(recs[i], key, PyStr("unknown")).s : i \in 1..Len(recs)}
    IN PyDict([v \in vals |->
                  PyInt(Cardinality({i \in 1..Len(recs) :
                                        Get(recs[i], key, PyStr("unknown")).s = v}))])

\* the try body of _run_recommendation_generation
RecommendationData(pattern_data, ingestion_data, cfg) ==
    LET all_recommendations == AllRecommendations(pattern_data, ingestion_data, cfg)
    IN [recommendations |-> all_recommendations,
        summary |-> [total_recommendations |-> PyInt(Len(all_recommendations)),
                     by_type |-> GroupBy(all_recommendations, "type"),
                     by_priority |-> GroupBy(all_recommendations, "priority_level"),
                     total_potential_savings |-> SumSavings(all_recommendations)]]

\* ------------------------------------------------------------------------
\* PerformancePredictor (app/ml/predictor.py)
\* ------------------------------------------------------------------------
RiskMultipliers ==
    [w \in {"production", "development", "testing", "batch_processing", "real_time",
            "user_facing"} |->
        CASE w = "production" -> 15 [] w = "development" -> 7 [] w = "testing" -> 5
          [] w = "batch_processing" -> 8 [] w = "real_time" -> 20 [] w = "user_facing" -> 18]

\* _determine_workload_type (utilizations in whole percent, variance in hundredths)
DetermineWorkloadType(resource, usage_patterns) ==
    LET tags == Get(resource, "tags", <<>>)
        hits == {k \in DOMAIN tags :
                    /\ k \in {"workload", "workload-type", "environment"}
                    /\ tags[k].t = "str" /\ tags[k].s \in DOMAIN RiskMultipliers}
        kws == KeywordsIn(Get(resource, "name", ""))
    IN IF hits # {} THEN tags[CHOOSE k \in hits : TRUE].s
       ELSE IF Get(usage_patterns, "cpu_variance", 0) > 50 THEN "batch_processing"
       ELSE IF Get(usage_patterns, "avg_cpu_utilization", 0) > 70 THEN "compute_intensive"
       ELSE IF kws \cap {"web", "api", "app"} # {} THEN "user_facing"
       ELSE IF kws \cap {"batch", "job", "worker"} # {} THEN "batch_processing"
       ELSE IF "prod" \in kws THEN "production"
       ELSE "general"

\* _calculate_base_impact, in hundredths
CalculateBaseImpact(optimization, workload_type) ==
    LET kws == KeywordsIn(Get(optimization, "type", PyStr("")).s)
        descr == Get(optimization, "description", PyStr("")).s
    IN IF "rightsizing" \in kws
       THEN IF descr \in {"downsize", "scale down"}
            THEN IF workload_type \in {"user_facing", "real_time"} THEN 0 - 25 ELSE 0 - 15
            ELSE 10
       ELSE IF "reserved" \in kws THEN 0
       ELSE IF "spot" \in kws THEN 0 - 5
       ELSE IF "storage" \in kws THEN 0 - 2
       ELSE 0

\* _apply_risk_adjustments, result in 1/100000 (no resource of the model carries
\* both a criticality and an importance tag, so the 1.3 applies at most once)
ApplyRiskAdjustments(base_impact, resource, optimization) ==
    LET workload_type == DetermineWorkloadType(resource, <<>>)
        tags == Get(resource, "tags", <<>>)
        m1 == IF workload_type \in DOMAIN RiskMultipliers
              THEN RiskMultipliers[workload_type] ELSE 10
        m2 == IF \E k \in DOMAIN tags :
                    /\ k \in {"criticality", "importance"}
                    /\ tags[k].t = "str" /\ tags[k].s \in {"high", "critical"}
              THEN 13 ELSE 10
        complexity == Get(optimization, "implementation_complexity", PyStr("medium")).s
        m3 == IF complexity = "high" THEN 12 ELSE IF complexity = "low" THEN 9 ELSE 10
    IN base_impact * m1 * m2 * m3

\* _calculate_confidence
CalculateConfidence(resource, optimization, usage_patterns) ==
    LET complexity == Get(optimization, "implementation_complexity", PyStr("medium")).s
        score == 50 + (IF Get(usage_patterns, "data_points", 0) > 100 THEN 20 ELSE 0)
                 + (IF complexity = "low" THEN 15 ELSE IF complexity = "high" THEN 0 - 10 ELSE 0)
                 + (IF Get(resource, "resource_type", "") \in {"ec2", "rds", "lambda", "s3", "elb"}
                    THEN 10 ELSE 0)
    IN IF score >= 80 THEN "high" ELSE IF score >= 60 THEN "medium" ELSE "low"

\* predict_impact
PredictImpact(resource, optimization, usage_patterns) ==
    LET workload_type == DetermineWorkloadType(resource, usage_patterns)
        base_impact == CalculateBaseImpact(optimization, workload_type)
        confidence == CalculateConfidence(resource, optimization, usage_patterns)
    IN [predicted_performance_impact |->
            ApplyRiskAdjustments(base_impact, resource, optimization),
        base_impact |-> base_impact,
        confidence_level |-> confidence,
        confidence_score |-> CASE confidence = "low" -> 40 [] confidence = "medium" -> 70
                               [] OTHER -> 90,
        workload_type |-> workload_type]

\* ------------------------------------------------------------------------
\* Stage 6: performance estimation
\* ------------------------------------------------------------------------
\* the try body of _run_performance_estimation
PerformanceData(recommendation_data, pattern_data) ==
    LET pattern_analysis == pattern_data.pattern_analysis
        known(rec) == \E i \in 1..Len(pattern_analysis) :
                         pattern_analysis[i].resource_id = rec["resource_id"].s
        analysisOf(rec) ==
            pattern_analysis[CHOOSE i \in 1..Len(pattern_analysis) :
                /\ pattern_analysis[i].resource_id = rec["resource_id"].s
                /\ \A j \in 1..(i - 1) :
                      pattern_analysis[j].resource_id # rec["resource_id"].s]
        performance_estimations ==
            SeqMap(LAMBDA rec :
                      [recommendation_id |-> Get(rec, "id", PyNone),
                       resource_id |-> rec["resource_id"].s,
                       performance_prediction |->
                           PredictImpact(analysisOf(rec).resource, rec,
                                         analysisOf(rec).usage_patterns)],
                   SelectSeq(recommendation_data.recommendations, known))
    IN [performance_estimations |-> performance_estimations,
        summary |->
          [total_estimations |-> PyInt(Len(performance_estimations)),
           high_confidence_count |-> PyInt(Len(SelectSeq(performance_estimations,
                LAMBDA e : e.performance_prediction.confidence_level = "high"))),
           \* np.mean of an empty list is nan
           avg_predicted_impact |->
               IF performance_estimations = <<>> THEN PyNaN
               ELSE PyFloat(SumSeq(SeqMap(
                        LAMBDA e : e.performance_prediction.predicted_performance_impact,
                        performance_estimations)) \div (1000 * Len(performance_estimations)))]]

\* ------------------------------------------------------------------------
\* Stage 7: validation and finalization
\* ------------------------------------------------------------------------
\* a validator without the minimum savings check
ValidateRecommendationNoSavings(recommendation, cfg) ==
    LET low_confidence ==
            NumGet(recommendation, "confidence_score") < cfg.confidence_threshold
    IN [is_valid |-> ~low_confidence,
        issues |-> IF low_confidence THEN <<"Confidence score below threshold">> ELSE <<>>,
        validation_checks |-> <<"confidence_threshold_check", "conflict_detection_check">>]

\* _validate_recommendation
ValidateRecommendation(recommendation, cfg) ==
    LET low_savings == NumGet(recommendation, "potential_savings") < MinSavingsCents
        low_confidence ==
            NumGet(recommendation, "confidence_score") < cfg.confidence_threshold
    IN [is_valid |-> ~low_savings /\ ~low_confidence,
        issues |-> (IF low_savings THEN <<"Savings below minimum threshold">> ELSE <<>>)
                   \o (IF low_confidence THEN <<"Confidence score below threshold">>
                       ELSE <<>>),
        validation_checks |-> <<"minimum_savings_check", "confidence_threshold_check",
                                "conflict_detection_check">>]

ValidationDict(v) ==
    PyDict([is_valid |-> PyBool(v.is_valid),
            issues |-> PyList(SeqMap(PyStr, v.issues)),
            validation_checks |-> PyList(SeqMap(PyStr, v.validation_checks))])

\* the valid recommendations left in the order they were generated in
ValidatedOrderUnsorted(recommendations, cfg) ==
    SelectSeq([i \in 1..Len(recommendations) |-> i],
              LAMBDA i : ValidateRecommendation(recommendations[i], cfg).is_valid)

\* the positions, in the generation stage's list, of the recommendations
\* that validate, in the order "sort(key=(priority_rank, -potential_savings))"
\* leaves them in
ValidatedOrder(recommendations, cfg) ==
    LET valid == SelectSeq([i \in 1..Len(recommendations) |-> i],
                    LAMBDA i : ValidateRecommendation(recommendations[i], cfg).is_valid)
    IN StableSort(valid,
                  SeqMap(LAMBDA i :
                            <<IF "priority_rank" \in DOMAIN recommendations[i]
                              THEN recommendations[i]["priority_rank"].v ELSE 999,
                              0 - NumGet(recommendations[i], "potential_savings")>>,
                         valid))

\* rec["validation"] = ...; rec["final_rank"] = i + 1
Finalized(rec, cfg, rank) ==
    [k \in DOMAIN rec \cup {"validation", "final_rank"} |->
        CASE k = "validation" -> ValidationDict(ValidateRecommendation(rec, cfg))
          [] k = "final_rank" -> PyInt(rank)
          [] OTHER -> rec[k]]

\* the try body of _run_validation_and_finalization
ValidationData(recommendation_data, cfg) ==
    LET recommendations == recommendation_data.recommendations
        order == ValidatedOrder(recommendations, cfg)
        validated_recommendations ==
            [j \in 1..Len(order) |-> Finalized(recommendations[order[j]], cfg, j)]
    IN [recommendations |-> validated_recommendations,
        validation_summary |->
           [total_validated |-> PyInt(Len(validated_recommendations)),
            total_invalid |-> PyInt(Len(recommendations) - Len(validated_recommendations)),
            validation_pass_rate |->
               IF recommendations # <<>>
               THEN PyFloat((100 * Len(validated_recommendations)) \div Len(recommendations))
               ELSE PyInt(0)]]

\* the generation stage's list after validation wrote "validation" and
\* "final_rank" into the dictionaries it shares with the validated list
AfterValidation(recommendation_data, cfg) ==
    LET recommendations == recommendation_data.recommendations
        order == ValidatedOrder(recommendations, cfg)
    IN [recommendation_data EXCEPT !.recommendations =
          [i \in 1..Len(recommendations) |->
              IF \E j \in 1..Len(order) : order[j] = i
              THEN Finalized(recommendations[i], cfg,
                             CHOOSE j \in 1..Len(order) : order[j] = i)
              ELSE recommendations[i]]]

\* ------------------------------------------------------------------------
\* Reports
\* ------------------------------------------------------------------------
SuccessfulResults(results) == SelectSeq(results, LAMBDA r : r.success)

SumDurations(results) == SumSeq(SeqMap(LAMBDA r : r.duration, results))

RECURSIVE ExtractDataProcessingStats(_)
\* _extract_data_processing_stats: stats.update(...) in list order
ExtractDataProcessingStats(results) ==
    IF results = <<>> THEN <<>>
    ELSE LET result == results[Len(results)]
             stats == ExtractDataProcessingStats(SubSeq(results, 1, Len(results) - 1))
         IN IF result.stage = "data_ingestion" /\ result.success
            THEN Get(result.data, "summary", <<>>) @@ stats
            ELSE IF result.stage = "feature_engineering" /\ result.success
            THEN Get(result.data, "feature_summary", <<>>) @@ stats
            ELSE IF result.stage = "recommendation_generation" /\ result.success
            THEN Get(result.data, "summary", <<>>) @@ stats
            ELSE stats

\* _calculate_quality_metrics
CalculateQualityMetrics ==
    PyDict([recommendation_quality_score |-> PyFloat(85),
            data_completeness |-> PyFloat(92),
            processing_efficiency |-> PyFloat(78)])

\* _generate_pipeline_summary; "duration / sum(durations)" raises
\* ZeroDivisionError when every recorded duration is 0.0
GeneratePipelineSummary(results) ==
    IF results # <<>> /\ SumDurations(results) = 0
    THEN PyDict([error |-> PyStr("float division by zero")])
    ELSE PyDict(
      [execution_summary |-> PyDict(
          [total_stages |-> PyInt(Len(PipelineStage)),
           successful_stages |-> PyInt(Len(SuccessfulResults(results))),
           failed_stages |-> PyInt(Len(results) - Len(SuccessfulResults(results))),
           overall_success_rate |->
              PyFloat((100 * Len(SuccessfulResults(results))) \div Len(PipelineStage)),
           total_duration |-> PyFloat(SumDurations(results))]),
       stage_performance |-> PyList(SeqMap(
          LAMBDA result :
             PyDict([stage |-> PyStr(result.stage),
                     success |-> PyBool(result.success),
                     duration |-> PyFloat(result.duration),
                     duration_percentage |->
                        PyFloat((10000 * result.duration) \div SumDurations(results))]),
          results)),
       data_processing_stats |-> PyDict(ExtractDataProcessingStats(results)),
       quality_metrics |-> CalculateQualityMetrics])

\* _create_error_response
CreateErrorResponse(message, error, results) ==
    PyDict([status |-> PyStr("error"),
            message |-> PyStr(message),
            error |-> error,
            timestamp |-> PyStr("isoformat"),
            pipeline_results |-> PyList(SeqMap(
                LAMBDA result : PyDict([stage |-> PyStr(result.stage),
                                        success |-> PyBool(result.success),
                                        duration |-> PyFloat(result.duration),
                                        error |-> result.error]),
                results))])

\* a sanitizer that does not descend into nested dictionaries and lists
SanitizeTopLevel(data) ==
    IF data.t = "dict"
    THEN PyDict([k \in DOMAIN data.items |->
                    IF data.items[k].t \in {"int", "float", "bool"}
                    THEN IF data.items[k].c \in {"nan", "inf"} THEN PyFloat(0)
                         ELSE PyFloat(NumVal(data.items[k]))
                    ELSE data.items[k]])
    ELSE data

RECURSIVE SanitizeNumericValues(_)
\* _sanitize_numeric_values: isinstance(data, (int, float)) holds of bool,
\* int, float and numpy.float64; float(data) of an int n is n.0
SanitizeNumericValues(data) ==
    IF data.t = "dict"
    THEN PyDict([k \in DOMAIN data.items |-> SanitizeNumericValues(data.items[k])])
    ELSE IF data.t = "list"
    THEN PyList([i \in 1..Len(data.items) |-> SanitizeNumericValues(data.items[i])])
    ELSE IF data.t \in {"int", "float", "bool"}
    THEN IF data.c \in {"nan", "inf"} THEN PyFloat(0)
         ELSE PyFloat(NumVal(data))
    ELSE data

\* a success path that leaves the summary out
SuccessReportNoSummary(results, final_result, total_duration) ==
    PyDict([status |-> PyStr("success"),
            total_duration |-> PyFloat(total_duration),
            recommendations |->
                PyList(SeqMap(PyDict, Get(final_result.data, "recommendations", <<>>))),
            pipeline_results |-> PyList(SeqMap(
                LAMBDA result : PyDict([stage |-> PyStr(result.stage),
                                        success |-> PyBool(result.success),
                                        duration |-> PyFloat(result.duration),
                                        timestamp |-> PyStr("isoformat")]),
                results))])

\* the dictionary run_pipeline builds on its success path, before sanitizing
SuccessReport(results, final_result, total_duration) ==
    PyDict([status |-> PyStr("success"),
            total_duration |-> PyFloat(total_duration),
            stages_completed |-> PyInt(Len(SuccessfulResults(results))),
            total_stages |-> PyInt(Len(PipelineStage)),
            recommendations |->
                PyList(SeqMap(PyDict, Get(final_result.data, "recommendations", <<>>))),
            summary |-> GeneratePipelineSummary(results),
            pipeline_results |-> PyList(SeqMap(
                LAMBDA result : PyDict([stage |-> PyStr(result.stage),
                                        success |-> PyBool(result.success),
                                        duration |-> PyFloat(result.duration),
                                        timestamp |-> PyStr("isoformat")]),
                results))])

\* ------------------------------------------------------------------------
\* run_pipeline as a state machine
\* ------------------------------------------------------------------------
VARIABLES
    database,          \* the rows the storage collaborator holds
    config,            \* config[o]: self.config of pipeline object o
    pipeline_results,  \* pipeline_results[o]: self.pipeline_results of object o
    target,            \* target[r]: the object run r calls run_pipeline on
    pc,                \* pc[r]: where run r is in run_pipeline
    args,              \* args[r]: the resource_ids argument of run r
    tick,              \* tick[r]: what the clock advances during a stage of run r
    fetched,           \* fetched[r]: the local `resources` of _run_data_ingestion
    refs,              \* refs[r]: the locals ingestion_result .. final_result, as
                       \*   positions in pipeline_results[target[r]] (0: unbound)
    report,            \* report[r]: what run_pipeline returned to run r's caller
    loop,              \* the run the event loop is executing (0: none)
    executed,          \* executed[r]: the stage methods run r has called so far
    lib_call,          \* a direct caller of the recommender and the risk assessor:
                       \*   its arguments and where it is
    lib_recs,          \* what generate_recommendations returned to that caller
    lib_risk,          \* what assess_risk returned for each of those recommendations
    lib_pred,          \* what predict_impact returned for each of those recommendations
    runner             \* the command-line runner run_ml_pipeline: where it is, its
                       \*   calls of save_recommendations_to_db, what it returned

vars == <<database, config, pipeline_results, target, pc, args, tick, fetched,
          refs, report, loop, executed, lib_call, lib_recs, lib_risk, lib_pred,
          runner>>

\* a runner that was not started
NotCalled == [pc |-> "none", save_calls |-> <<>>, result |-> PyNone]

\* run_pipeline's resource_ids: None (here <<>>) or a list of ids
ResourceIdChoices == {<<>>, <<ResourceIdStr[1]>>}

NoRefs == [ingestion_result |-> 0, feature_result |-> 0, pattern_result |-> 0,
           risk_result |-> 0, recommendation_result |-> 0, performance_result |-> 0,
           final_result |-> 0]

\* a run_pipeline that goes on after a failed pattern analysis
FatalStagesWithoutPatterns == {"data_ingestion", "feature_engineering",
                               "recommendation_generation"}

\* a run_pipeline that goes on after a failed recommendation generation
FatalStagesWithoutGeneration == {"data_ingestion", "feature_engineering", "pattern_analysis"}

\* a run_pipeline that also returns when risk assessment failed
FatalStagesWithRisk == {"data_ingestion", "feature_engineering", "pattern_analysis",
                        "risk_assessment", "recommendation_generation"}

\* "if not result.success: return self._create_error_response(...)"
FatalStages == {"data_ingestion", "feature_engineering", "pattern_analysis",
                "recommendation_generation"}

ErrorMessage(stage) ==
    CASE stage = "data_ingestion" -> "Data ingestion failed"
      [] stage = "feature_engineering" -> "Feature engineering failed"
      [] stage = "pattern_analysis" -> "Pattern analysis failed"
      [] stage = "recommendation_generation" -> "Recommendation generation failed"
      [] OTHER -> "Pipeline execution failed"

\* a run_pipeline that ignores the two enable flags
StageEnabledAlways(stage, cfg) == TRUE

\* "if self.config.enable_risk_assessment:", "if self.config.enable_performance_prediction:"
StageEnabled(stage, cfg) ==
    CASE stage = "risk_assessment" -> cfg.enable_risk_assessment
      [] stage = "performance_estimation" -> cfg.enable_performance_prediction
      [] OTHER -> TRUE

\* the statement run_pipeline goes on with after `stage` when it does not return
After(stage, cfg) ==
    CASE stage = "data_ingestion" -> "feature_engineering"
      [] stage = "feature_engineering" -> "pattern_analysis"
      [] stage = "pattern_analysis" ->
            IF StageEnabled("risk_assessment", cfg) THEN "risk_assessment"
            ELSE "recommendation_generation"
      [] stage = "risk_assessment" -> "recommendation_generation"
      [] stage = "recommendation_generation" ->
            IF StageEnabled("performance_estimation", cfg) THEN "performance_estimation"
            ELSE "validation"
      [] stage = "performance_estimation" -> "validation"
      [] stage = "validation" -> "finalize"

\* the stage's duration on run r's clock, in hundredths of a second
Duration(r) == 100 * tick[r]

\* "self.pipeline_results.append(result)" and what follows it up to the next
\* stage call: the early return with an error report, or the next statement
Record(r, result, ref) ==
    LET o == target[r]
        results == Append(pipeline_results[o], result)
    IN /\ pipeline_results' = [pipeline_results EXCEPT ![o] = results]
       /\ refs' = [refs EXCEPT ![r][ref] = Len(results)]
       /\ executed' = [executed EXCEPT ![r] = Append(@, result.stage)]
       /\ IF ~result.success /\ result.stage \in FatalStages
          THEN /\ report' = [report EXCEPT ![r] =
                     CreateErrorResponse(ErrorMessage(result.stage), result.error, results)]
               /\ pc' = [pc EXCEPT ![r] = "done"]
               /\ loop' = 0
          ELSE /\ report' = report
               /\ pc' = [pc EXCEPT ![r] = After(result.stage, config[o])]
               /\ loop' = r

\* the PipelineResult a local of run r is bound to
Local(r, ref) == pipeline_results[target[r]][refs[r][ref]]

\* what no run has touched yet
Fresh ==
    /\ pipeline_results = [o \in Objects |-> <<>>]
    /\ fetched = [r \in Runs |-> <<>>]
    /\ refs = [r \in Runs |-> NoRefs]
    /\ report = [r \in Runs |-> PyNone]
    /\ loop = 0
    /\ executed = [r \in Runs |-> <<>>]
    /\ lib_call = [step |-> "none"]
    /\ lib_recs = <<>>
    /\ lib_risk = <<>>
    /\ lib_pred = <<>>

\* one caller, one pipeline object (run_ml_pipeline.py, the /ml/run-pipeline
\* endpoint): any database, configuration, argument and clock
Init ==
    /\ database \in DatabaseChoices
    /\ \E cfg \in ConfigChoices : config = [o \in Objects |-> cfg]
    /\ target = [r \in Runs |-> r]
    /\ pc = [r \in Runs |-> IF r = 1 THEN "ready" ELSE "absent"]
    /\ \E ids \in ResourceIdChoices : args = [r \in Runs |-> ids]
    /\ \E t \in {0, 1} : tick = [r \in Runs |-> t]
    /\ Fresh
    /\ runner = NotCalled

\* the configurations two callers use: the defaults, but for the two optional
\* stages; the second object's risk assessment flag is chosen on its own
PairConfigs ==
    { [o \in Objects |->
          MLPipelineConfig(DefaultConfidenceThreshold, DefaultMaxRecommendations,
                           IF o = 1 THEN risk1 ELSE risk2, perf)] :
        risk1 \in BOOLEAN, risk2 \in BOOLEAN, perf \in BOOLEAN }

\* two callers, on two pipeline objects or on the same one
InitPair ==
    /\ database \in Databases(MaxResources)
    /\ \A i \in 1..Len(database.resources) :
          Len(CostsOf(database.cost_entries, database.resources[i].id)) >= ReservedMinDays
    /\ config \in PairConfigs
    /\ target \in {[r \in Runs |-> r], [r \in Runs |-> 1]}
    /\ pc = [r \in Runs |-> "ready"]
    /\ args = [r \in Runs |-> <<>>]
    /\ tick = [r \in Runs |-> 1]
    /\ Fresh
    /\ runner = NotCalled

\* a caller awaits run_pipeline(resource_ids); the coroutine runs up to the
\* first "await session.execute(query)"
Start(r) ==
    /\ pc[r] = "ready" /\ loop = 0
    /\ pc' = [pc EXCEPT ![r] = "ingest_resources"]
    /\ UNCHANGED <<runner, lib_call, lib_recs, lib_risk, lib_pred, database, config, pipeline_results, target, args, tick, fetched,
                   refs, report, loop, executed>>

\* the resources query returns or raises; on success the coroutine suspends
\* again at "await session.execute(cost_query)"
IngestResources(r) ==
    /\ pc[r] = "ingest_resources" /\ loop = 0
    /\ \E raises \in BOOLEAN :
          IF raises
          THEN /\ Record(r, FailedResult("data_ingestion", Duration(r)), "ingestion_result")
               /\ UNCHANGED fetched
          ELSE /\ fetched' = [fetched EXCEPT ![r] = QueryResources(database, args[r])]
               /\ pc' = [pc EXCEPT ![r] = "ingest_costs"]
               /\ UNCHANGED <<pipeline_results, refs, report, loop, executed>>
    /\ UNCHANGED <<runner, lib_call, lib_recs, lib_risk, lib_pred, database, config, target, args, tick>>

\* the cost query returns or raises; from here to its return run_pipeline
\* does not suspend any more
IngestCosts(r) ==
    /\ pc[r] = "ingest_costs" /\ loop = 0
    /\ \E raises \in BOOLEAN :
          Record(r,
                 IF raises THEN FailedResult("data_ingestion", Duration(r))
                 ELSE PipelineResult("data_ingestion", TRUE,
                          IngestionData(fetched[r],
                                        QueryCostEntries(database, config[target[r]]),
                                        config[target[r]]),
                          Duration(r), PyNone),
                 "ingestion_result")
    /\ UNCHANGED <<runner, lib_call, lib_recs, lib_risk, lib_pred, database, config, target, args, tick, fetched>>

\* a stage method: its try body computes `data`, or raises
Stage(r, stage, ref, data, mustRaise) ==
    /\ pc[r] = stage /\ loop = r
    /\ \E raises \in BOOLEAN :
          Record(r,
                 IF raises \/ mustRaise THEN FailedResult(stage, Duration(r))
                 ELSE PipelineResult(stage, TRUE, data, Duration(r), PyNone),
                 ref)
    /\ UNCHANGED <<runner, lib_call, lib_recs, lib_risk, lib_pred, database, config, target, args, tick, fetched>>

\* data[key] raises KeyError on the empty data of a failed stage
Lacks(data, keys) == \E k \in keys : k \notin DOMAIN data

FeatureEngineering(r) ==
    Stage(r, "feature_engineering", "feature_result",
          FeatureData(Local(r, "ingestion_result").data, config[target[r]]),
          Lacks(Local(r, "ingestion_result").data, {"resources", "cost_entries"}))

PatternAnalysis(r) ==
    Stage(r, "pattern_analysis", "pattern_result",
          PatternData(Local(r, "feature_result").data, config[target[r]]),
          \/ Lacks(Local(r, "feature_result").data, {"features"})
          \/ PatternAnalysisRaises(Local(r, "feature_result").data))

RiskAssessment(r) ==
    Stage(r, "risk_assessment", "risk_result",
          RiskData(Local(r, "pattern_result").data),
          Lacks(Local(r, "pattern_result").data, {"pattern_analysis"}))

RecommendationGeneration(r) ==
    Stage(r, "recommendation_generation", "recommendation_result",
          RecommendationData(Local(r, "pattern_result").data,
                             Local(r, "ingestion_result").data, config[target[r]]),
          Lacks(Local(r, "pattern_result").data, {"pattern_analysis"}))

PerformanceEstimation(r) ==
    Stage(r, "performance_estimation", "performance_result",
          PerformanceData(Local(r, "recommendation_result").data,
                          Local(r, "pattern_result").data),
          \/ Lacks(Local(r, "recommendation_result").data, {"recommendations"})
          \/ Lacks(Local(r, "pattern_result").data, {"pattern_analysis"}))

\* validation also writes into the recommendation dictionaries that the
\* generation stage's result holds
Validation(r) ==
    /\ pc[r] = "validation" /\ loop = r
    /\ LET o == target[r]
           cfg == config[o]
           g == refs[r]["recommendation_result"]
           given == pipeline_results[o][g].data
       IN \E raised \in BOOLEAN :
            LET raises == raised \/ Lacks(given, {"recommendations"})
                result == IF raises THEN FailedResult("validation", Duration(r))
                          ELSE PipelineResult("validation", TRUE,
                                   ValidationData(given, cfg), Duration(r), PyNone)
                written == IF raises THEN pipeline_results[o]
                           ELSE [pipeline_results[o] EXCEPT ![g].data =
                                    AfterValidation(given, cfg)]
                results == Append(written, result)
            IN /\ pipeline_results' = [pipeline_results EXCEPT ![o] = results]
               /\ refs' = [refs EXCEPT ![r]["final_result"] = Len(results)]
               /\ executed' = [executed EXCEPT ![r] = Append(@, "validation")]
               /\ pc' = [pc EXCEPT ![r] = After("validation", cfg)]
    /\ UNCHANGED <<runner, lib_call, lib_recs, lib_risk, lib_pred, database, config, target, args, tick, fetched, report, loop>>

\* "return self._sanitize_numeric_values({...})"
Finalize(r) ==
    /\ pc[r] = "finalize" /\ loop = r
    /\ report' = [report EXCEPT ![r] =
          SanitizeNumericValues(
              SuccessReport(pipeline_results[target[r]], Local(r, "final_result"),
                            Len(executed[r]) * Duration(r)))]
    /\ pc' = [pc EXCEPT ![r] = "done"]
    /\ loop' = 0
    /\ UNCHANGED <<runner, lib_call, lib_recs, lib_risk, lib_pred, database, config, pipeline_results, target, args, tick, fetched,
                   refs, executed>>

Next ==
    \E r \in Runs :
        \/ Start(r)
        \/ IngestResources(r)
        \/ IngestCosts(r)
        \/ FeatureEngineering(r)
        \/ PatternAnalysis(r)
        \/ RiskAssessment(r)
        \/ RecommendationGeneration(r)
        \/ PerformanceEstimation(r)
        \/ Validation(r)
        \/ Finalize(r)

Spec == Init /\ [][Next]_vars

SpecPair == InitPair /\ [][Next]_vars

\* ------------------------------------------------------------------------
\* Reading reports and results
\* ------------------------------------------------------------------------
Returned(r) == pc[r] = "done"
Status(r) == report[r].items["status"].s
Succeeded(r) == Returned(r) /\ Status(r) = "success"
Failed(r) == Returned(r) /\ Status(r) = "error"

\* the recommendations of run r's report
ReportRecs(r) == SeqMap(LAMBDA d : d.items, report[r].items["recommendations"].items)

\* the stage names of a list of results, and of a report's stage results
StagesOf(results) == SeqMap(LAMBDA res : res.stage, results)
ReportStages(r) ==
    SeqMap(LAMBDA d : d.items["stage"].s, report[r].items["pipeline_results"].items)

\* the results recorded on the object run r works on
Recorded(r) == pipeline_results[target[r]]

Bound(r, ref) == refs[r][ref] # 0

\* the stages a run with configuration cfg goes through, in order
EnabledStages(cfg) ==
    SelectSeq(PipelineStage,
              LAMBDA st : /\ (st = "risk_assessment" => cfg.enable_risk_assessment)
                          /\ (st = "performance_estimation" =>
                                 cfg.enable_performance_prediction))

IsPrefix(s, t) == Len(s) <= Len(t) /\ s = SubSeq(t, 1, Len(s))

\* ------------------------------------------------------------------------
\* The validation stage on its own: _run_validation_and_finalization applied
\* to any list the recommender can emit for one resource
\* ------------------------------------------------------------------------
\* resources as the recommender's callers describe them
LibraryResources ==
    { [id |-> ResourceIdStr[1], provider |-> "aws", resource_type |-> "vm",
       name |-> "web-dev", tags |-> <<>>, instance_type |-> it, monthly_cost |-> mc] :
        it \in {"t3.large", "c5.xlarge"}, mc \in {5, 2 * MaxDailyCost, 100} }

LibraryUsage ==
    { [avg_cpu_utilization |-> 3, peak_cpu_utilization |-> 20,
       avg_network_utilization |-> 2, last_activity_days |-> 10],
      [avg_cpu_utilization |-> 50, peak_cpu_utilization |-> 60,
       avg_network_utilization |-> 30, last_activity_days |-> 0] }

LibraryCosts ==
    { <<>>, SeqMap(LAMBDA row : [resource_id |-> row.resource_id, date |-> 0 - row.age_days,
                                 cost |-> row.cost],
                   CostRows(1, ReservedMinDays, 10, 10, 0, 0)) }

RecommenderOutputs ==
    { GenerateRecommendations(<<res>>, (res.id :> usage), costs) :
        res \in LibraryResources, usage \in LibraryUsage, costs \in LibraryCosts }

InitValidation ==
    /\ database = [resources |-> <<>>, cost_entries |-> <<>>]
    /\ \E threshold \in {DefaultConfidenceThreshold, 70, 95} :
          config = [o \in Objects |->
                      MLPipelineConfig(threshold, DefaultMaxRecommendations, FALSE, FALSE)]
    /\ \E recs \in RecommenderOutputs :
          pipeline_results =
             [o \in Objects |->
                 IF o = 1
                 THEN << PipelineResult("recommendation_generation", TRUE,
                            [recommendations |-> recs,
                             summary |-> [total_recommendations |-> PyInt(Len(recs))]],
                            100, PyNone) >>
                 ELSE <<>>]
    /\ target = [r \in Runs |-> r]
    /\ pc = [r \in Runs |-> IF r = 1 THEN "validation" ELSE "absent"]
    /\ args = [r \in Runs |-> <<>>]
    /\ tick = [r \in Runs |-> 1]
    /\ fetched = [r \in Runs |-> <<>>]
    /\ refs = [r \in Runs |-> IF r = 1 THEN [NoRefs EXCEPT !.recommendation_result = 1]
                              ELSE NoRefs]
    /\ report = [r \in Runs |-> PyNone]
    /\ loop = 1
    /\ executed = [r \in Runs |-> IF r = 1 THEN <<"recommendation_generation">> ELSE <<>>]
    /\ lib_call = [step |-> "none"]
    /\ lib_recs = <<>>
    /\ lib_risk = <<>>
    /\ lib_pred = <<>>
    /\ runner = NotCalled

NextValidation == Validation(1)

SpecValidation == InitValidation /\ [][NextValidation]_vars

\* ------------------------------------------------------------------------
\* The recommender and the risk assessor called directly (as the unit tests
\* in tests/test_ml_components.py call them): generate_recommendations for
\* one resource, then assess_risk for each recommendation it returned
\* ------------------------------------------------------------------------
\* type, name and tags of the caller's resource
CallerResourceKinds ==
    { [resource_type |-> "vm", name |-> "web-dev", tags |-> <<>>],
      [resource_type |-> "vm", name |-> NullName, tags |-> <<>>],
      [resource_type |-> "storage", name |-> "web-dev", tags |-> <<>>],
      [resource_type |-> "database", name |-> "orders-db",
       tags |-> [environment |-> PyStr("production")]],
      [resource_type |-> "database", name |-> "prod-api",
       tags |-> [environment |-> PyStr("production")]],
      [resource_type |-> "database", name |-> "prod-api",
       tags |-> [environment |-> PyStr("production"), tier |-> PyStr("critical")]] }

CallerResources ==
    { [id |-> ResourceIdStr[1], provider |-> "aws", resource_type |-> kind.resource_type,
       name |-> kind.name, tags |-> kind.tags, instance_type |-> it, monthly_cost |-> mc] :
        kind \in CallerResourceKinds,
        it \in {"", "t3.small", "t3.medium", "t3.large", "m5.xlarge"},
        mc \in {0, 2 * MaxDailyCost, 5 * MaxDailyCost} }

\* average and peak utilization, on and around the heuristics' boundaries
CallerUtilization ==
    { <<3, 20>>, <<5, 20>>, <<10, 20>>, <<19, 39>>, <<19, 40>>, <<20, 20>>, <<40, 95>>,
      <<55, 60>>, <<70, 20>>, <<71, 20>>, <<85, 95>>, <<85, 80>> }

\* network utilization and days since the last activity
CallerActivity == { <<2, 10>>, <<2, 7>>, <<10, 10>> }

\* used and allocated storage in GB
CallerStorage == { <<10, 200>>, <<100, 200>> }

CallerUsage ==
    { [avg_cpu_utilization |-> u[1], peak_cpu_utilization |-> u[2],
       avg_network_utilization |-> a[1], last_activity_days |-> a[2],
       storage_used_gb |-> g[1], storage_allocated_gb |-> g[2]] :
        u \in CallerUtilization, a \in CallerActivity, g \in CallerStorage }

\* no cost history, or 35 daily records of 100 currency units
CallerCosts ==
    { <<>>, SeqMap(LAMBDA row : [resource_id |-> row.resource_id, date |-> 0 - row.age_days,
                                 cost |-> row.cost],
                   CostRows(1, 35, 100, 100, 0, 0)) }

\* the action descriptor a caller hands to assess_risk for a recommendation
AsOptimization(rec, migrates) ==
    IF migrates THEN [type |-> rec["type"].s, requires_data_migration |-> TRUE]
    ELSE [type |-> rec["type"].s]

InitLibrary ==
    /\ database = [resources |-> <<>>, cost_entries |-> <<>>]
    /\ config = [o \in Objects |->
                    MLPipelineConfig(DefaultConfidenceThreshold, DefaultMaxRecommendations,
                                     TRUE, TRUE)]
    /\ target = [r \in Runs |-> r]
    /\ pc = [r \in Runs |-> "absent"]
    /\ args = [r \in Runs |-> <<>>]
    /\ tick = [r \in Runs |-> 1]
    /\ pipeline_results = [o \in Objects |-> <<>>]
    /\ fetched = [r \in Runs |-> <<>>]
    /\ refs = [r \in Runs |-> NoRefs]
    /\ report = [r \in Runs |-> PyNone]
    /\ loop = 0
    /\ executed = [r \in Runs |-> <<>>]
    /\ \E res \in CallerResources, usage \in CallerUsage, costs \in CallerCosts :
          lib_call = [step |-> "generate", resource |-> res, usage_patterns |-> usage,
                      cost_data |-> costs]
    /\ lib_recs = <<>>
    /\ lib_risk = <<>>
    /\ lib_pred = <<>>
    /\ runner = NotCalled

\* recommender.generate_recommendations([resource], {id: usage}, cost_data)
CallGenerateRecommendations ==
    /\ lib_call.step = "generate"
    /\ lib_recs' = GenerateRecommendations(
                      <<lib_call.resource>>,
                      (lib_call.resource.id :> lib_call.usage_patterns),
                      lib_call.cost_data)
    /\ lib_call' = [lib_call EXCEPT !.step = "assess"]
    /\ UNCHANGED <<runner, database, config, pipeline_results, target, pc, args, tick, fetched,
                   refs, report, loop, executed, lib_risk, lib_pred>>

\* assessor.assess_risk(resource, optimization) for every recommendation,
\* each declaring a data migration or not
CallAssessRisk ==
    /\ lib_call.step = "assess"
    /\ \E migrates \in BOOLEAN :
          lib_risk' = [i \in 1..Len(lib_recs) |->
                          [optimization |-> AsOptimization(lib_recs[i], migrates),
                           rollback_complexity |->
                               AssessRollbackComplexity(AsOptimization(lib_recs[i], migrates)),
                           assessment |->
                               AssessRisk(lib_call.resource,
                                          AsOptimization(lib_recs[i], migrates))]]
    /\ lib_call' = [lib_call EXCEPT !.step = "predict"]
    /\ UNCHANGED <<runner, database, config, pipeline_results, target, pc, args, tick, fetched,
                   refs, report, loop, executed, lib_recs, lib_pred>>

\* the recommendation a caller hands to predict_impact: as the recommender
\* returned it, or with a description of the caller's own wording
AsDescribed(rec, wording) ==
    IF wording = "" THEN rec
    ELSE [k \in DOMAIN rec |-> IF k = "description" THEN PyStr(wording) ELSE rec[k]]

\* predictor.predict_impact(resource, rec, usage_patterns) for every
\* recommendation
CallPredictImpact ==
    /\ lib_call.step = "predict"
    /\ \E wording \in {"", "downsize"} :
          lib_pred' = [i \in 1..Len(lib_recs) |->
                          [optimization |-> AsDescribed(lib_recs[i], wording),
                           prediction |->
                               PredictImpact(lib_call.resource,
                                             AsDescribed(lib_recs[i], wording),
                                             lib_call.usage_patterns)]]
    /\ lib_call' = [lib_call EXCEPT !.step = "done"]
    /\ UNCHANGED <<runner, database, config, pipeline_results, target, pc, args, tick, fetched,
                   refs, report, loop, executed, lib_recs, lib_risk>>

NextLibrary == CallGenerateRecommendations \/ CallAssessRisk \/ CallPredictImpact

SpecLibrary == InitLibrary /\ [][NextLibrary]_vars

\* ------------------------------------------------------------------------
\* The command-line runner (run_ml_pipeline.py)
\* ------------------------------------------------------------------------

\* run_ml_pipeline has created the pipeline object and awaits
\* pipeline.run_pipeline(resource_ids): any database, configuration,
\* argument and clock
InitRunner ==
    /\ database \in DatabaseChoices
    /\ \E cfg \in ConfigChoices : config = [o \in Objects |-> cfg]
    /\ target = [r \in Runs |-> r]
    /\ pc = [r \in Runs |-> IF r = 1 THEN "ready" ELSE "absent"]
    /\ \E ids \in ResourceIdChoices : args = [r \in Runs |-> ids]
    /\ \E t \in {0, 1} : tick = [r \in Runs |-> t]
    /\ Fresh
    /\ runner = [pc |-> "awaiting", save_calls |-> <<>>, result |-> PyNone]

\* what run_ml_pipeline returns from its "except Exception" branch
FatalPipelineError(error) ==
    PyDict([status |-> PyStr("error"),
            message |-> PyStr("Fatal pipeline error"),
            error |-> PyStr(error),
            timestamp |-> PyStr("isoformat")])

\* the subscripts run_ml_pipeline evaluates when it logs a success report,
\* as <<dictionary, key>> pairs
LoggedSubscripts(results) ==
    { <<results, "recommendations">>,
      <<results, "summary">>,
      <<results.items["summary"], "total_potential_savings">>,
      <<results, "total_duration">> }

\* one of those subscripts raises KeyError
LoggingRaises(results) ==
    \/ "summary" \notin DOMAIN results.items
    \/ \E sub \in LoggedSubscripts(results) : sub[2] \notin DOMAIN sub[1].items

\* run_ml_pipeline from the return of run_pipeline to its own return: the
\* log lines, the one call of save_recommendations_to_db (which answers
\* success or error), the results file, the return
RunMlPipeline ==
    /\ runner.pc = "awaiting"
    /\ pc[1] = "done"
    /\ LET results == report[1]
           recommendations == results.items["recommendations"].items
       IN IF results.items["status"].s = "success"
          THEN IF LoggingRaises(results)
               THEN runner' = [pc |-> "returned", save_calls |-> <<>>,
                               result |-> FatalPipelineError("KeyError")]
               ELSE \E save_status \in {"success", "error"} :
                       runner' = [pc |-> "returned",
                                  save_calls |->
                                     IF recommendations # <<>>
                                     THEN << [recommendations |-> recommendations,
                                              status |-> save_status] >>
                                     ELSE <<>>,
                                  result |-> results]
          ELSE runner' = [pc |-> "returned", save_calls |-> <<>>, result |-> results]
    /\ UNCHANGED <<database, config, pipeline_results, target, pc, args, tick, fetched,
                   refs, report, loop, executed, lib_call, lib_recs, lib_risk, lib_pred>>

NextRunner == Next \/ RunMlPipeline

SpecRunner == InitRunner /\ [][NextRunner]_vars

\* the library caller's recommendations of one type
LibRecsOfType(type) == SelectSeq(lib_recs, LAMBDA rec : rec["type"].s = type)

Generated == lib_call.step \in {"assess", "predict", "done"}
Assessed == lib_call.step \in {"predict", "done"}
Predicted == lib_call.step = "done"

\* ------------------------------------------------------------------------
\* Properties
\* ------------------------------------------------------------------------
ResultsOf(r, stages) ==
    {i \in 1..Len(Recorded(r)) : Recorded(r)[i].stage \in stages}

\* C1: on a fresh orchestrator the stages run in the fixed order ingestion,
\* features, patterns, [risk], generation, [performance], validation; a
\* bracketed stage runs only if its flag is set; no stage runs twice; and a
\* stage starts only after the stage before it in that order has recorded
\* its result.
C1_StageOrder ==
    \A r \in Runs :
        pc[r] # "absent" =>
            LET cfg == config[target[r]]
                ran == StagesOf(Recorded(r))
                plan == EnabledStages(cfg)
            IN /\ ran = executed[r]
               /\ IsPrefix(ran, plan)
               /\ (pc[r] \in {"ready", "ingest_resources", "ingest_costs"} => ran = <<>>)
               /\ (pc[r] \in {PipelineStage[i] : i \in 2..Len(PipelineStage)} =>
                      /\ Len(ran) < Len(plan)
                      /\ plan[Len(ran) + 1] = pc[r])
               /\ (pc[r] = "finalize" => ran = plan)
               /\ (Succeeded(r) => ran = plan)

C1_Witness ==
    /\ Succeeded(1)
    /\ ~config[1].enable_risk_assessment
    /\ config[1].enable_performance_prediction
    /\ StagesOf(Recorded(1)) = <<"data_ingestion", "feature_engineering", "pattern_analysis",
                                 "recommendation_generation", "performance_estimation",
                                 "validation">>

\* C2: when data ingestion, feature engineering, pattern analysis or
\* recommendation generation fails, the run has returned an error report,
\* no later stage ran, and the report lists every result recorded so far
\* with the failed stage last.
C2_FatalFailureEndsRun ==
    \A r \in Runs :
        pc[r] # "absent" =>
            \A i \in ResultsOf(r, {"data_ingestion", "feature_engineering",
                                   "pattern_analysis", "recommendation_generation"}) :
                ~Recorded(r)[i].success =>
                    /\ Failed(r)
                    /\ i = Len(Recorded(r))
                    /\ ReportStages(r) = StagesOf(Recorded(r))
                    /\ LET last == report[r].items["pipeline_results"].items[i].items
                       IN /\ last["stage"].s = Recorded(r)[i].stage
                          /\ last["success"] = PyBool(FALSE)

C2_Witness ==
    /\ Failed(1)
    /\ config[1].enable_risk_assessment
    /\ ReportStages(1) = <<"data_ingestion", "feature_engineering", "pattern_analysis",
                           "risk_assessment", "recommendation_generation">>
    /\ ~Recorded(1)[5].success

\* C3: a failed risk assessment or performance estimation is recorded and
\* the run goes on with the next stage; when the run has returned and each
\* of the four fatal stages succeeded, the report's status is success and
\* every enabled stage ran.
C3_OptionalFailureGoesOn ==
    \A r \in Runs :
        pc[r] # "absent" =>
            \A i \in ResultsOf(r, {"risk_assessment", "performance_estimation"}) :
                ~Recorded(r)[i].success =>
                    /\ (i = Len(Recorded(r)) =>
                           pc[r] = IF Recorded(r)[i].stage = "risk_assessment"
                                   THEN "recommendation_generation" ELSE "validation")
                    /\ (Returned(r)
                        /\ (\A f \in {"data_ingestion", "feature_engineering",
                                      "pattern_analysis", "recommendation_generation"} :
                               \E j \in ResultsOf(r, {f}) : Recorded(r)[j].success)
                        => /\ Status(r) = "success"
                           /\ ReportStages(r) = EnabledStages(config[target[r]]))

C3_Witness ==
    /\ Succeeded(1)
    /\ \E i \in ResultsOf(1, {"risk_assessment"}) : ~Recorded(1)[i].success
    /\ \E i \in ResultsOf(1, {"performance_estimation"}) : ~Recorded(1)[i].success
    /\ Len(ReportStages(1)) = Len(PipelineStage)

\* C4 as the specification states it: every report has a status of success
\* or error and carries a recommendations list, a summary and the stage
\* results.
C4_EveryReportHasAllFields ==
    \A r \in Runs :
        Returned(r) =>
            /\ Status(r) \in {"success", "error"}
            /\ {"recommendations", "summary", "pipeline_results"} \subseteq DOMAIN report[r].items

\* C4, amended: a run ends only by returning a report; every report has a
\* status of success or error and carries the list of stage results; a
\* success report also carries a recommendations list and a summary; an
\* error report carries a message and an error instead, and neither a
\* recommendations list nor a summary.
C4_ReportShape ==
    \A r \in Runs :
        /\ (Returned(r) <=> report[r] # PyNone)
        /\ Returned(r) =>
            LET keys == DOMAIN report[r].items
            IN /\ report[r].t = "dict"
               /\ Status(r) \in {"success", "error"}
               /\ "pipeline_results" \in keys
               /\ report[r].items["pipeline_results"].t = "list"
               /\ (Status(r) = "success" =>
                      /\ {"recommendations", "summary"} \subseteq keys
                      /\ report[r].items["recommendations"].t = "list"
                      /\ report[r].items["summary"].t = "dict")
               /\ (Status(r) = "error" =>
                      /\ {"message", "error"} \subseteq keys
                      /\ keys \cap {"recommendations", "summary"} = {})

C4_Witness ==
    /\ Failed(1)
    /\ "recommendations" \notin DOMAIN report[1].items
    /\ ReportStages(1) = <<"data_ingestion", "feature_engineering">>

RECURSIVE HasNonFinite(_)
\* some number inside a Python value is NaN or an infinity
HasNonFinite(v) ==
    IF v.t = "dict" THEN \E k \in DOMAIN v.items : HasNonFinite(v.items[k])
    ELSE IF v.t = "list" THEN \E i \in 1..Len(v.items) : HasNonFinite(v.items[i])
    ELSE IF v.t \in {"int", "float", "bool"} THEN v.c \in {"nan", "inf"}
    ELSE FALSE

RECURSIVE ZeroedFrom(_, _)
\* `out` has the shape of `raw`, with 0.0 wherever raw has a non-finite number
ZeroedFrom(raw, out) ==
    IF raw.t = "dict"
    THEN /\ out.t = "dict" /\ DOMAIN out.items = DOMAIN raw.items
         /\ \A k \in DOMAIN raw.items : ZeroedFrom(raw.items[k], out.items[k])
    ELSE IF raw.t = "list"
    THEN /\ out.t = "list" /\ Len(out.items) = Len(raw.items)
         /\ \A i \in 1..Len(raw.items) : ZeroedFrom(raw.items[i], out.items[i])
    ELSE IF raw.t \in {"int", "float", "bool"}
    THEN raw.c \in {"nan", "inf"} => out = PyFloat(0)
    ELSE TRUE

\* the dictionary run r's success path built before it sanitized it
RawReport(r) ==
    SuccessReport(Recorded(r), Local(r, "final_result"), Len(executed[r]) * Duration(r))

\* C5: no report contains a NaN or an infinity at any depth; where the
\* dictionary built on the success path had one, the report has 0.0.
C5_NoNonFiniteNumbers ==
    \A r \in Runs :
        Returned(r) =>
            /\ ~HasNonFinite(report[r])
            /\ (Status(r) = "success" => ZeroedFrom(RawReport(r), report[r]))

C5_Witness ==
    /\ Succeeded(1)
    /\ HasNonFinite(RawReport(1))
    /\ report[1].items["summary"].items["data_processing_stats"]
          .items["avg_data_points_per_resource"] = PyFloat(0)

\* a recommendation without what validation writes into it
Unvalidated(rec) == [k \in DOMAIN rec \ {"validation", "final_rank"} |-> rec[k]]

Occurrences(x, s) == Cardinality({i \in 1..Len(s) : s[i] = x})

\* C6: the validated list is a sub-multiset of the list validation was
\* given (nothing added, nothing duplicated), and every recommendation in
\* it has savings of at least 10 and a confidence of at least the threshold.
C6_ValidationOnlyFilters ==
    \A r \in Runs :
        (Bound(r, "final_result") /\ Local(r, "final_result").success) =>
            LET cfg == config[target[r]]
                given == SeqMap(Unvalidated,
                                Local(r, "recommendation_result").data.recommendations)
                validated == Local(r, "final_result").data.recommendations
                kept == SeqMap(Unvalidated, validated)
            IN \A j \in 1..Len(kept) :
                  /\ Occurrences(kept[j], kept) <= Occurrences(kept[j], given)
                  /\ NumGet(validated[j], "potential_savings") >= MinSavingsCents
                  /\ NumGet(validated[j], "confidence_score") >= cfg.confidence_threshold

C6_Witness ==
    /\ Bound(1, "final_result") /\ Local(1, "final_result").success
    /\ Len(Local(1, "final_result").data.recommendations) > 0
    /\ Len(Local(1, "final_result").data.recommendations)
          < Len(Local(1, "recommendation_result").data.recommendations)
    /\ \E i \in 1..Len(Local(1, "recommendation_result").data.recommendations) :
          NumGet(Local(1, "recommendation_result").data.recommendations[i],
                 "potential_savings") < MinSavingsCents

\* the stored resources with fewer than min_data_points cost records in the
\* analysis window
ShortOfData(cfg) ==
    {database.resources[i].id : i \in
        {j \in 1..Len(database.resources) :
            Cardinality({k \in 1..Len(database.cost_entries) :
                /\ database.cost_entries[k].resource_id = database.resources[j].id
                /\ database.cost_entries[k].age_days \in 0..cfg.analysis_window_days})
            < cfg.min_data_points}}

IdsIn(s) == {s[i].resource_id : i \in 1..Len(s)}

\* C7: a resource with fewer than min_data_points cost records in the
\* window is left out by a feature stage that succeeds, and appears in no
\* later stage's data and in no recommendation of the report.
C7_ShortResourcesSkipped ==
    \A r \in Runs :
        pc[r] # "absent" =>
            LET cfg == config[target[r]]
                short == ShortOfData(cfg)
                ok(ref) == Bound(r, ref) /\ Local(r, ref).success
            IN /\ (ok("feature_result") =>
                      /\ IdsIn(Local(r, "feature_result").data.features) \cap short = {}
                      /\ Local(r, "feature_result").data.feature_summary
                            .total_resources_processed
                         = PyInt(Len(SelectSeq(Local(r, "ingestion_result").data.resources,
                                               LAMBDA res : res.id \notin short))))
               /\ (ok("pattern_result") =>
                      IdsIn(Local(r, "pattern_result").data.pattern_analysis) \cap short = {})
               /\ (ok("risk_result") =>
                      IdsIn(Local(r, "risk_result").data.risk_assessments) \cap short = {})
               /\ (ok("recommendation_result") =>
                      \A i \in 1..Len(Local(r, "recommendation_result").data.recommendations) :
                         Local(r, "recommendation_result").data.recommendations[i]
                            ["resource_id"].s \notin short)
               /\ (ok("performance_result") =>
                      IdsIn(Local(r, "performance_result").data.performance_estimations)
                         \cap short = {})
               /\ (Succeeded(r) =>
                      \A i \in 1..Len(ReportRecs(r)) :
                         ReportRecs(r)[i]["resource_id"].s \notin short)

C7_Witness ==
    /\ Succeeded(1)
    /\ \E i \in 1..Len(Local(1, "ingestion_result").data.resources) :
          Local(1, "ingestion_result").data.resources[i].id
             \in ShortOfData(config[1])
    /\ Local(1, "feature_result").success
    /\ Len(ReportRecs(1)) > 0

\* C8 as the specification states it: a run's report depends on nothing
\* another run did, two run_pipeline calls on the same orchestrator object
\* included: the stage results a report lists are those of the stages that
\* run executed, and a success report counts that run's successful stages.
C8_RunsIndependent ==
    \A r \in Runs :
        Returned(r) =>
            /\ ReportStages(r) = executed[r]
            /\ (Status(r) = "success" =>
                   NumVal(report[r].items["stages_completed"]) <= 100 * Len(PipelineStage))

ProjectRec(rec) ==
    [resource_id |-> rec["resource_id"].s,
     type |-> rec["type"].s,
     potential_savings |-> NumGet(rec, "potential_savings"),
     confidence_score |-> NumGet(rec, "confidence_score"),
     priority_rank |-> NumGet(rec, "priority_rank"),
     final_rank |-> NumGet(rec, "final_rank")]

RiskOutcome(r) ==
    IF ~Bound(r, "risk_result") THEN "disabled"
    ELSE IF Local(r, "risk_result").success THEN "succeeded" ELSE "failed"

\* C9: two successful runs over the same ingested data whose configurations
\* differ at most in enable_risk_assessment report the same recommendations
\* with the same savings, confidence, priority rank and final rank, whether
\* risk assessment succeeded, failed or was disabled.
C9_RiskDoesNotGate ==
    (/\ Succeeded(1) /\ Succeeded(2)
     /\ Local(1, "ingestion_result").data = Local(2, "ingestion_result").data
     /\ Local(1, "final_result").success = Local(2, "final_result").success)
    => SeqMap(ProjectRec, ReportRecs(1)) = SeqMap(ProjectRec, ReportRecs(2))

C9_Witness ==
    /\ Succeeded(1) /\ Succeeded(2)
    /\ target[1] # target[2]
    /\ RiskOutcome(1) = "succeeded"
    /\ Len(Local(1, "risk_result").data.risk_assessments) > 0
    /\ RiskOutcome(2) \in {"disabled", "failed"}
    /\ Len(ReportRecs(1)) = MaxResources
    /\ Len(ReportRecs(2)) = MaxResources

\* the recommender's output for an analysed resource that meets the
\* confidence threshold
PassingFor(analysis, ingestion_data, cfg) ==
    SelectSeq(RecommendationsFor(analysis, ingestion_data),
              LAMBDA rec : NumGet(rec, "confidence_score") >= cfg.confidence_threshold)

\* C10: a success report holds, for each resource, at most
\* max_recommendations_per_resource recommendations, each for an analysed
\* resource, and none of them has lower savings than a recommendation of
\* that resource that met the confidence threshold and was left out.
C10_CapPerResource ==
    \A r \in Runs :
        Succeeded(r) =>
            LET cfg == config[target[r]]
                analyses == Local(r, "pattern_result").data.pattern_analysis
                ingestion_data == Local(r, "ingestion_result").data
                recs == ReportRecs(r)
            IN /\ \A i \in 1..Len(recs) :
                     recs[i]["resource_id"].s \in IdsIn(analyses)
               /\ \A a \in 1..Len(analyses) :
                     LET kept == SelectSeq(recs, LAMBDA rec :
                                    rec["resource_id"].s = analyses[a].resource_id)
                         passing == PassingFor(analyses[a], ingestion_data, cfg)
                     IN /\ Len(kept) <= cfg.max_recommendations_per_resource
                        /\ \A k \in 1..Len(kept) : \A x \in 1..Len(passing) :
                              (\A k2 \in 1..Len(kept) : kept[k2]["id"] # passing[x]["id"])
                              => NumGet(kept[k], "potential_savings")
                                    >= NumGet(passing[x], "potential_savings")

C10_Witness ==
    /\ Succeeded(1)
    /\ config[1].max_recommendations_per_resource = 0
    /\ Local(1, "recommendation_result").success
    /\ \E a \in 1..Len(Local(1, "pattern_result").data.pattern_analysis) :
          PassingFor(Local(1, "pattern_result").data.pattern_analysis[a],
                     Local(1, "ingestion_result").data, config[1]) # <<>>
    /\ ReportRecs(1) = <<>>

\* the types of the library caller's recommendations
LibTypes == { lib_recs[i]["type"].s : i \in 1..Len(lib_recs) }

\* C11: every recommendation generate_recommendations returns for a resource
\* with non-negative costs, whichever heuristic emitted it, has
\* potential_savings >= 0 and a confidence_score between 0 and 1.
C11_SavingsAndConfidenceInRange ==
    Generated =>
        \A i \in 1..Len(lib_recs) :
            /\ NumGet(lib_recs[i], "potential_savings") >= 0
            /\ "confidence_score" \in DOMAIN lib_recs[i]
            /\ NumVal(lib_recs[i]["confidence_score"]) >= 0
            /\ NumVal(lib_recs[i]["confidence_score"]) <= 100

\* one resource for which all five heuristics emitted
C11_Witness ==
    /\ Generated
    /\ LibTypes = {"rightsizing", "reserved_instance", "spot_instance",
                   "storage_optimization", "unused_resource"}

\* C12: with an average utilization between 40 and 70 inclusive the
\* rightsizing heuristic emits no recommendation, whatever the peak
\* utilization and the instance type are.
C12_GoodUtilizationNoRightsizing ==
    (/\ Generated
     /\ lib_call.usage_patterns.avg_cpu_utilization >= 40
     /\ lib_call.usage_patterns.avg_cpu_utilization <= 70)
    => LibRecsOfType("rightsizing") = <<>>

\* the upper end of the range with a low peak, on an instance type that has
\* a cheaper size
C12_Witness ==
    /\ Generated
    /\ lib_call.usage_patterns.avg_cpu_utilization = 70
    /\ lib_call.usage_patterns.peak_cpu_utilization < 40
    /\ GetSmallerInstance(lib_call.resource.instance_type) # lib_call.resource.instance_type
    /\ LibRecsOfType("rightsizing") = <<>>

\* the assessments assess_risk returned to the library caller
LibAssessments == { lib_risk[i].assessment : i \in 1..Len(lib_risk) }

\* a key of an assessment that is present and True
IsTrueIn(assessment, key) == Get(assessment, key, FALSE) = TRUE

\* C13: every assessment assess_risk returns, the one of its except branch
\* included, has level critical at a score >= 0.8, high at >= 0.6, medium at
\* >= 0.4 and low below; auto_approval_eligible is true exactly at low and
\* requires_approval exactly at high or critical, so never both.
C13_RiskLevelAndFlags ==
    Assessed =>
        \A a \in LibAssessments :
            /\ a.risk_level = (IF a.overall_risk_score >= 8000 THEN "critical"
                               ELSE IF a.overall_risk_score >= 6000 THEN "high"
                               ELSE IF a.overall_risk_score >= 4000 THEN "medium"
                               ELSE "low")
            /\ IsTrueIn(a, "auto_approval_eligible") <=> a.risk_level = "low"
            /\ IsTrueIn(a, "requires_approval") <=> a.risk_level \in {"high", "critical"}
            /\ ~(IsTrueIn(a, "auto_approval_eligible") /\ IsTrueIn(a, "requires_approval"))

\* the scoring raised and the except branch answered
C13_Witness ==
    /\ Assessed
    /\ AssessRiskRaises(lib_call.resource)
    /\ \E a \in LibAssessments : "error" \in DOMAIN a

\* positions of the library caller's recommendations of one type
LibIndexOfType(type) == { i \in 1..Len(lib_recs) : lib_recs[i]["type"].s = type }

\* the scenario's resource and cost history: a database tagged
\* environment=production with 35 daily cost records of 100
ProductionDatabaseWithHistory ==
    /\ lib_call.resource.resource_type = "database"
    /\ IsProductionTag(lib_call.resource.tags)
    /\ Len(lib_call.cost_data) = 35
    /\ \A j \in 1..Len(lib_call.cost_data) : lib_call.cost_data[j].cost = 100

Underutilized ==
    /\ lib_call.usage_patterns.avg_cpu_utilization < 20
    /\ lib_call.usage_patterns.peak_cpu_utilization < 40

\* the instance types whose next smaller size is more than 10 cheaper
DownsizableTypes == {"t3.large", "m5.large", "m5.xlarge", "c5.large", "r5.large"}

\* the rollback-complexity component is 0.2 for every rightsizing
\* recommendation handed to assess_risk as it is
RightsizingRollbackIsLow ==
    \A i \in LibIndexOfType("rightsizing") :
        "requires_data_migration" \notin DOMAIN lib_risk[i].optimization
        => lib_risk[i].rollback_complexity = 20

\* C15 as stated: for every resource with average utilization below 20 and
\* peak below 40 the rightsizing heuristic emits a downsizing recommendation
\* with savings above 0, whose rollback-complexity component is 0.2.
C15_UnderutilizedAlwaysRightsized ==
    (Assessed /\ Underutilized) =>
        /\ \E i \in LibIndexOfType("rightsizing") :
              NumGet(lib_recs[i], "potential_savings") > 0
        /\ RightsizingRollbackIsLow

\* C15 amended: with average utilization below 20 and peak below 40 the
\* rightsizing heuristic emits exactly for the instance types whose next
\* smaller size is more than 10 cheaper; the recommendation then names that
\* smaller size, has savings above 10, and its rollback-complexity component
\* is 0.2.
C15_UnderutilizedRightsizedWhenCheaper ==
    (Assessed /\ Underutilized) =>
        /\ LibIndexOfType("rightsizing") # {}
              <=> lib_call.resource.instance_type \in DownsizableTypes
        /\ \A i \in LibIndexOfType("rightsizing") :
              /\ NumGet(lib_recs[i], "potential_savings") > 1000
              /\ lib_recs[i]["current_instance"].s = lib_call.resource.instance_type
              /\ lib_recs[i]["recommended_instance"].s
                    = SmallerInstance[lib_call.resource.instance_type]
        /\ RightsizingRollbackIsLow

\* the scenario's utilization (10, 20) on a type with a cheaper size: the
\* recommendation is emitted and assessed
C15_Witness ==
    /\ Assessed
    /\ lib_call.usage_patterns.avg_cpu_utilization = 10
    /\ lib_call.usage_patterns.peak_cpu_utilization = 20
    /\ \E i \in LibIndexOfType("rightsizing") :
          /\ NumGet(lib_recs[i], "potential_savings") > 0
          /\ lib_risk[i].rollback_complexity = 20

\* the strings of a recommendation's risk_factors list
RiskFactorsOf(rec) ==
    IF "risk_factors" \in DOMAIN rec
    THEN { rec["risk_factors"].items[j].s : j \in 1..Len(rec["risk_factors"].items) }
    ELSE {}

\* C16: the unused-resource heuristic emits a recommendation exactly when
\* utilization < 5, network activity < 10 and days since the last activity
\* > 7; its savings are the resource's full monthly cost and it records the
\* possible-data-loss risk factor.
C16_UnusedResource ==
    Generated =>
        /\ LibIndexOfType("unused_resource") # {}
              <=> (/\ lib_call.usage_patterns.avg_cpu_utilization < 5
                   /\ lib_call.usage_patterns.avg_network_utilization < 10
                   /\ lib_call.usage_patterns.last_activity_days > 7)
        /\ Cardinality(LibIndexOfType("unused_resource")) <= 1
        /\ \A i \in LibIndexOfType("unused_resource") :
              /\ NumGet(lib_recs[i], "potential_savings")
                    = 100 * lib_call.resource.monthly_cost
              /\ "Data loss if resource contains important data"
                    \in RiskFactorsOf(lib_recs[i])

\* the scenario: utilization 3, network activity 2, 10 days idle, on a
\* resource that costs something
C16_Witness ==
    /\ Generated
    /\ lib_call.usage_patterns.avg_cpu_utilization = 3
    /\ lib_call.usage_patterns.avg_network_utilization = 2
    /\ lib_call.usage_patterns.last_activity_days = 10
    /\ lib_call.resource.monthly_cost > 0
    /\ \E i \in LibIndexOfType("unused_resource") :
          NumGet(lib_recs[i], "potential_savings") = 100 * lib_call.resource.monthly_cost

\* the list the generation stage of run r produced, <<>> before that
GeneratedRecs(r) ==
    IF Bound(r, "recommendation_result") /\ Local(r, "recommendation_result").success
    THEN Local(r, "recommendation_result").data.recommendations
    ELSE <<>>

\* the priority_rank of a recommendation
PriorityRank(rec) == rec["priority_rank"].v

\* C17 as stated: the recommendations one run generated across all its
\* resources are in descending order of potential savings and the priority
\* rank of each is its position, so the ranks are the distinct values 1..n
\* and a recommendation with higher savings never has a larger rank.
C17_RanksAreOneToN ==
    \A r \in Runs :
        LET recs == GeneratedRecs(r)
        IN /\ \A i \in 1..Len(recs) : PriorityRank(recs[i]) = i
           /\ \A i, j \in 1..Len(recs) :
                 /\ i < j => NumGet(recs[i], "potential_savings")
                                >= NumGet(recs[j], "potential_savings")
                 /\ NumGet(recs[i], "potential_savings") > NumGet(recs[j], "potential_savings")
                    => PriorityRank(recs[i]) <= PriorityRank(recs[j])

\* C18: in every success report the recommendations are in ascending order
\* of priority rank and, among equal ranks, in descending order of potential
\* savings, and their final_rank values are 1..n in list order.
C18_ReportOrderAndFinalRank ==
    \A r \in Runs :
        Succeeded(r) =>
            LET recs == ReportRecs(r)
            IN /\ \A i \in 1..Len(recs) :
                     /\ "final_rank" \in DOMAIN recs[i]
                     /\ NumVal(recs[i]["final_rank"]) = 100 * i
               /\ \A i, j \in 1..Len(recs) :
                     i < j =>
                        \/ NumGet(recs[i], "priority_rank") < NumGet(recs[j], "priority_rank")
                        \/ /\ NumGet(recs[i], "priority_rank") = NumGet(recs[j], "priority_rank")
                           /\ NumGet(recs[i], "potential_savings")
                                 >= NumGet(recs[j], "potential_savings")

\* a success report of two recommendations that were generated in the other
\* order: the second resource's, with the higher savings, comes first
C18_Witness ==
    /\ Succeeded(1)
    /\ Len(ReportRecs(1)) = 2
    /\ ReportRecs(1)[1]["resource_id"].s = ResourceIdStr[2]
    /\ NumGet(ReportRecs(1)[1], "potential_savings")
          > NumGet(ReportRecs(1)[2], "potential_savings")

\* every issue string held by the validation stage's output: the issues of
\* the "validation" entry of each recommendation it lists (its
\* validation_summary holds three numbers and no text)
RecordedIssues(data) ==
    UNION { { data.recommendations[i]["validation"].items.issues.items[j].s :
                j \in 1..Len(data.recommendations[i]["validation"].items.issues.items) } :
            i \in 1..Len(data.recommendations) }

\* C19 as stated: a recommendation that fails the validator's savings or
\* confidence check is left out of the validated list while the validation
\* stage succeeds, and the reason for its rejection is recorded in the
\* stage's output.
C19_RejectionReasonRecorded ==
    \A r \in Runs :
        (Bound(r, "final_result") /\ Local(r, "final_result").success) =>
            LET cfg == config[target[r]]
                given == Local(r, "recommendation_result").data.recommendations
                data == Local(r, "final_result").data
                kept == SeqMap(Unvalidated, data.recommendations)
            IN \A i \in 1..Len(given) :
                  LET verdict == ValidateRecommendation(given[i], cfg)
                  IN ~verdict.is_valid =>
                        /\ Occurrences(Unvalidated(given[i]), kept) = 0
                        /\ \A k \in 1..Len(verdict.issues) :
                              verdict.issues[k] \in RecordedIssues(data)

\* C20 as stated: for each type tag the recommender emits, the
\* rollback-complexity score is 0.2 for rightsizing, 0.7 for
\* reserved_instance, 0.6 for spot_instance, 0.5 for storage_optimization and
\* 0.4 for any other type, plus 0.3 when the action declares a data
\* migration, capped at 1.0.
C20_RollbackBaseScorePerType ==
    Assessed =>
        \A i \in 1..Len(lib_risk) :
            LET type == lib_risk[i].optimization.type
                base == CASE type = "rightsizing" -> 20
                          [] type = "reserved_instance" -> 70
                          [] type = "spot_instance" -> 60
                          [] type = "storage_optimization" -> 50
                          [] OTHER -> 40
                migration == IF Get(lib_risk[i].optimization, "requires_data_migration", FALSE)
                             THEN 30 ELSE 0
            IN lib_risk[i].rollback_complexity = Min(100, base + migration)

\* average utilization above 80 and peak above 90 on an instance type that
\* has a larger size
OverutilizedWithLargerSize ==
    /\ lib_call.usage_patterns.avg_cpu_utilization > 80
    /\ lib_call.usage_patterns.peak_cpu_utilization > 90
    /\ lib_call.resource.instance_type \in DOMAIN LargerInstance

\* C21 as stated: for every resource with average utilization above 80 and
\* peak above 90 whose instance type has a larger size, the rightsizing
\* heuristic emits an upsizing recommendation with zero cost savings.
C21_OverutilizedUpsized ==
    (Generated /\ OverutilizedWithLargerSize) =>
        \E i \in LibIndexOfType("rightsizing") :
            /\ lib_recs[i]["recommended_instance"].s
                  = LargerInstance[lib_call.resource.instance_type]
            /\ NumGet(lib_recs[i], "potential_savings") = 0

\* the predictions predict_impact returned to the library caller
LibPredictions == { lib_pred[i] : i \in 1..Len(lib_pred) }

\* the multiplier of a workload type, in tenths
MultiplierOf(workload_type) ==
    CASE workload_type = "production" -> 15
      [] workload_type = "development" -> 7
      [] workload_type = "testing" -> 5
      [] workload_type = "batch_processing" -> 8
      [] workload_type = "real_time" -> 20
      [] workload_type = "user_facing" -> 18
      [] OTHER -> 10

\* C22 as stated: in every prediction the predicted impact is the base
\* impact times the multiplier of the workload type the prediction reports,
\* times 1.3 for a high-criticality tag, times 1.2 or 0.9 for high or low
\* implementation complexity: the workload type behind the base impact and
\* the one behind the multiplier are the same.
C22_ImpactUsesReportedWorkload ==
    Predicted =>
        \A p \in LibPredictions :
            LET tags == lib_call.resource.tags
                critical == \E k \in DOMAIN tags :
                               /\ k \in {"criticality", "importance"}
                               /\ tags[k].t = "str" /\ tags[k].s \in {"high", "critical"}
                complexity == Get(p.optimization, "implementation_complexity",
                                  PyStr("medium")).s
            IN p.prediction.predicted_performance_impact
                  = p.prediction.base_impact
                    * MultiplierOf(p.prediction.workload_type)
                    * (IF critical THEN 13 ELSE 10)
                    * (IF complexity = "high" THEN 12 ELSE IF complexity = "low" THEN 9 ELSE 10)

\* the predictions made for a rightsizing recommendation that proposes the
\* next smaller instance
DownsizingPredictions ==
    { p \in LibPredictions :
        /\ p.optimization["type"].s = "rightsizing"
        /\ p.optimization["current_instance"].s \in DOMAIN SmallerInstance
        /\ p.optimization["recommended_instance"].s
              = SmallerInstance[p.optimization["current_instance"].s] }

\* C23 as stated: for every rightsizing recommendation that proposes a
\* smaller instance, those the rightsizing heuristic emits included, the
\* predictor's base impact is -0.25 for a user-facing or real-time workload
\* and -0.15 otherwise.
C23_DownsizingBaseImpactNegative ==
    Predicted =>
        \A p \in DownsizingPredictions :
            p.prediction.base_impact
               = (IF p.prediction.workload_type \in {"user_facing", "real_time"}
                  THEN 0 - 25 ELSE 0 - 15)

\* stage `ref` of run r was executed and succeeded
StageSucceeded(r, ref) == Bound(r, ref) /\ Local(r, ref).success

\* a recommendation of a report carries a dictionary holding this key, which
\* is how a risk assessment (risk_level) or a performance prediction
\* (predicted_performance_impact) would sit in it
CarriesDictWith(rec, key) ==
    \E k \in DOMAIN rec : rec[k].t = "dict" /\ key \in DOMAIN rec[k].items

\* C24 as stated: when the risk assessment and performance estimation stages
\* are enabled and succeed, every recommendation of the report carries its
\* risk assessment and its performance prediction; when such a stage failed
\* or is disabled, the recommendations come without that stage's enrichment.
C24_RecommendationsEnriched ==
    \A r \in Runs :
        Succeeded(r) =>
            \A i \in 1..Len(ReportRecs(r)) :
                /\ CarriesDictWith(ReportRecs(r)[i], "risk_level")
                      <=> StageSucceeded(r, "risk_result")
                /\ CarriesDictWith(ReportRecs(r)[i], "predicted_performance_impact")
                      <=> StageSucceeded(r, "performance_result")

\* C25 as stated: a report with status success is returned only if the
\* validation stage succeeded, and its recommendations are the output of
\* that stage; a failed validation stage never yields a success report.
C25_SuccessOnlyAfterValidation ==
    \A r \in Runs :
        Succeeded(r) =>
            /\ StageSucceeded(r, "final_result")
            /\ Len(ReportRecs(r)) = Len(Local(r, "final_result").data.recommendations)
            /\ \A i \in 1..Len(ReportRecs(r)) :
                  ReportRecs(r)[i]["id"]
                     = Local(r, "final_result").data.recommendations[i]["id"]

\* the data_processing_stats of run r's report, <<>> when its summary has none
ReportStats(r) ==
    IF "data_processing_stats" \in DOMAIN report[r].items["summary"].items
    THEN report[r].items["summary"].items["data_processing_stats"].items
    ELSE <<>>

\* the sum of potential_savings over the recommendations of run r's report
ReportSavings(r) ==
    SumSeq(SeqMap(LAMBDA rec : NumGet(rec, "potential_savings"), ReportRecs(r)))

\* the summary's recommendation count and aggregate savings are those of
\* the recommendations the report returns
SummaryMatchesRecs(r) ==
    /\ "total_recommendations" \in DOMAIN ReportStats(r)
    /\ "total_potential_savings" \in DOMAIN ReportStats(r)
    /\ NumVal(ReportStats(r)["total_recommendations"]) = 100 * Len(ReportRecs(r))
    /\ NumVal(ReportStats(r)["total_potential_savings"]) = ReportSavings(r)

\* C26 as stated: in every success report the aggregate potential savings
\* and the recommendation count of the run summary equal the sum of
\* potential_savings and the number of the recommendations in that report.
C26_SummaryMatchesRecommendations ==
    \A r \in Runs : Succeeded(r) => SummaryMatchesRecs(r)

\* the ingested resources of run r that have enough data points and on which
\* feature extraction raises
RaisingResources(r) ==
    LET ingestion_data == Local(r, "ingestion_result").data
    IN { ingestion_data.resources[i].id : i \in
           { j \in 1..Len(ingestion_data.resources) :
               /\ HasEnoughData(ingestion_data.resources[j], ingestion_data.cost_entries,
                                config[target[r]])
               /\ TagLowerRaises(ingestion_data.resources[j].tags) } }

\* the feature entries of run r that hold an error instead of features
ErrorEntries(r) ==
    LET features == Local(r, "feature_result").data.features
    IN { features[i].resource_id : i \in
           { j \in 1..Len(features) :
               "error" \in DOMAIN features[j]
               /\ "combined_features" \notin DOMAIN features[j] } }

\* C27: when feature extraction raises for a resource with enough data
\* points, a feature stage that completes is recorded as successful with an
\* error entry for that resource; pattern analysis then fails and the run
\* returns an error report at pattern_analysis with no recommendations.
C27_FeatureErrorHaltsAtPatternAnalysis ==
    \A r \in Runs :
        StageSucceeded(r, "feature_result") =>
            /\ ErrorEntries(r) = RaisingResources(r)
            /\ RaisingResources(r) # {} =>
                  /\ Bound(r, "pattern_result") => ~Local(r, "pattern_result").success
                  /\ ~Bound(r, "recommendation_result")
                  /\ Returned(r) =>
                        /\ Failed(r)
                        /\ report[r].items["message"].s = "Pattern analysis failed"
                        /\ executed[r][Len(executed[r])] = "pattern_analysis"
                        /\ "recommendations" \notin DOMAIN report[r].items

\* a run over two resources, one of which would have got a recommendation,
\* that returned an error report because extraction raised for the other
C27_Witness ==
    /\ Failed(1)
    /\ StageSucceeded(1, "feature_result")
    /\ Len(Local(1, "feature_result").data.features) = 2
    /\ Cardinality(ErrorEntries(1)) = 1
    /\ Bound(1, "pattern_result") /\ ~Local(1, "pattern_result").success

\* C28: in any run every recommendation of the generation stage's output
\* and of the returned report has type reserved_instance; the rightsizing,
\* spot, storage and unused-resource heuristics never emit inside a run.
C28_OnlyReservedInsideRun ==
    \A r \in Runs :
        /\ \A i \in 1..Len(GeneratedRecs(r)) :
              GeneratedRecs(r)[i]["type"].s = "reserved_instance"
        /\ Succeeded(r) =>
              \A i \in 1..Len(ReportRecs(r)) :
                  ReportRecs(r)[i]["type"].s = "reserved_instance"

\* a success report with a recommendation for a storage volume and one for a
\* database, both of them reserved_instance
C28_Witness ==
    /\ Succeeded(1)
    /\ Len(ReportRecs(1)) = 2
    /\ \E i \in 1..2 : ReportRecs(1)[i]["resource_type"].s = "storage"
    /\ \A i \in 1..2 : ReportRecs(1)[i]["type"].s = "reserved_instance"

RECURSIVE PreservedFrom(_, _)
\* `out` has the dict/list structure of `raw` and, at every leaf of raw that
\* is not a NaN or an infinity, the same value of the same type
PreservedFrom(raw, out) ==
    IF raw.t = "dict"
    THEN /\ out.t = "dict" /\ DOMAIN out.items = DOMAIN raw.items
         /\ \A k \in DOMAIN raw.items : PreservedFrom(raw.items[k], out.items[k])
    ELSE IF raw.t = "list"
    THEN /\ out.t = "list" /\ Len(out.items) = Len(raw.items)
         /\ \A i \in 1..Len(raw.items) : PreservedFrom(raw.items[i], out.items[i])
    ELSE IF raw.t \in {"int", "float", "bool"} /\ raw.c \in {"nan", "inf"}
    THEN TRUE
    ELSE out = raw

\* C29: _sanitize_numeric_values changes only NaN and Infinity leaves: every
\* other leaf of a success report (booleans, integers, strings, finite
\* numbers) and the dict/list structure come back with the same value and
\* the same type.
C29_OnlyNonFiniteLeavesChange ==
    \A r \in Runs :
        Succeeded(r) => PreservedFrom(RawReport(r), report[r])

\* C30: whenever run_pipeline returned a success report with a non-empty
\* recommendation list, the runner run_ml_pipeline, once it has returned, has
\* called save_recommendations_to_db exactly once, with that list, and has
\* returned the success report to its caller.
C30_RunnerSavesOnceAndReturnsReport ==
    (runner.pc = "returned" /\ Succeeded(1) /\ ReportRecs(1) # <<>>) =>
        /\ Len(runner.save_calls) = 1
        /\ runner.save_calls[1].recommendations = report[1].items["recommendations"].items
        /\ runner.result = report[1]

====
